---------------------------- MODULE Spec2Model ----------------------------
(***************************************************************************)
(* Model of the game-independent Monte-Carlo tree search of Pentobi        *)
(* (libboardgame_mcts/Search.h) and of the interval checker it uses        *)
(* (libboardgame_util/IntervalChecker.cpp).                                *)
(*                                                                         *)
(* Counts are natural numbers.  Node values (running means of evaluations  *)
(* in [0,1]) are exact rationals <<numerator, denominator>> in lowest      *)
(* terms.  Times are integer ticks, TicksPerTenth ticks being 0.1 s.       *)
(***************************************************************************)
EXTENDS Integers, Sequences, FiniteSets, TLC

----------------------------------------------------------------------------
(* Bounds of the model *)

\* Largest number of children of a node in the final-selection checks
MaxChildren == 3

\* Largest visit count of a child in the final-selection checks
MaxCnt == 2

\* The "remaining simulations" arguments drawn for check_move_cannot_change
\* are the rationals n / d with n up to 2 * MaxRemaining and d in {1, 2}
MaxRemaining == 3

----------------------------------------------------------------------------
(* Rationals *)

RECURSIVE GCD(_, _)
GCD(a, b) == IF b = 0 THEN a ELSE GCD(b, a % b)

\* Lowest terms; the denominator is positive
Norm(q) ==
    LET g == GCD(IF q[1] < 0 THEN -q[1] ELSE q[1], q[2])
    IN  IF g = 0 THEN q ELSE <<q[1] \div g, q[2] \div g>>

\* -numeric_limits<Float>::max(), the start value of the running maxima
NegFltMax == <<-1, 0>>

\* a > b on Float values
ValGT(a, b) ==
    IF a = NegFltMax THEN FALSE
    ELSE IF b = NegFltMax THEN TRUE
    ELSE a[1] * b[2] > b[1] * a[2]

\* The values a child can have in the final-selection checks: 0, 1/2, 1
Values == {<<0, 1>>, <<1, 2>>, <<1, 1>>}

\* The null move / the null node pointer
Null == 0

----------------------------------------------------------------------------
(* Search::select_child_final and Search::select_move                       *)
(* children: the node's children in allocation (ChildIterator) order, each  *)
(* a record with fields move, count, value.  exclude_moves: the set of the  *)
(* moves in *exclude_moves, the empty set if the pointer is 0.  The result  *)
(* is the position of the selected child in children, Null if no child is   *)
(* selected.                                                                *)

IsExcluded(exclude_moves, mv) == mv \in exclude_moves

\* The loop of select_child_final from child i on, with the running
\* result, max_count and max_count_value
RECURSIVE select_child_final_loop(_, _, _, _, _, _)
select_child_final_loop(children, exclude_moves, i, result, max_count, max_count_value) ==
    IF i > Len(children) THEN result
    ELSE LET count == children[i].count
             value == children[i].value
         IN  IF /\ \/ count > max_count
                   \/ (count = max_count /\ ValGT(value, max_count_value))
                /\ ~IsExcluded(exclude_moves, children[i].move)
             THEN select_child_final_loop(children, exclude_moves, i + 1,
                                          i, count, value)
             ELSE select_child_final_loop(children, exclude_moves, i + 1,
                                          result, max_count, max_count_value)

\* Mutant: the exclusion test is made after the running maximum was updated
RECURSIVE select_child_final_loop_excl_late(_, _, _, _, _, _)
select_child_final_loop_excl_late(children, exclude_moves, i, result, max_count, max_count_value) ==
    IF i > Len(children) THEN result
    ELSE LET count == children[i].count
             value == children[i].value
         IN  IF \/ count > max_count
                \/ (count = max_count /\ ValGT(value, max_count_value))
             THEN select_child_final_loop_excl_late(
                      children, exclude_moves, i + 1,
                      IF IsExcluded(exclude_moves, children[i].move)
                      THEN result ELSE i,
                      count, value)
             ELSE select_child_final_loop_excl_late(
                      children, exclude_moves, i + 1, result, max_count,
                      max_count_value)

\* Mutant: the value tie-break uses >= (the last of equal children wins)
RECURSIVE select_child_final_loop_ge(_, _, _, _, _, _)
select_child_final_loop_ge(children, exclude_moves, i, result, max_count, max_count_value) ==
    IF i > Len(children) THEN result
    ELSE LET count == children[i].count
             value == children[i].value
         IN  IF /\ \/ count > max_count
                   \/ (count = max_count /\ ~ValGT(max_count_value, value))
                /\ ~IsExcluded(exclude_moves, children[i].move)
             THEN select_child_final_loop_ge(children, exclude_moves, i + 1,
                                             i, count, value)
             ELSE select_child_final_loop_ge(children, exclude_moves, i + 1,
                                             result, max_count,
                                             max_count_value)

select_child_final_ge(children, exclude_moves) ==
    select_child_final_loop_ge(children, exclude_moves, 1, Null, -1,
                               NegFltMax)

select_child_final_excl_late(children, exclude_moves) ==
    select_child_final_loop_excl_late(children, exclude_moves, 1, Null, -1,
                                      NegFltMax)

select_child_final(children, exclude_moves) ==
    select_child_final_loop(children, exclude_moves, 1, Null, -1, NegFltMax)

\* Mutant: the selected move is not written to mv
select_move_unwritten(children, exclude_moves, mv_in) ==
    IF select_child_final(children, exclude_moves) # Null THEN <<TRUE, mv_in>>
    ELSE <<FALSE, mv_in>>

\* select_move: <<return value, mv>>; mv_in is the caller's mv before the call
select_move(children, exclude_moves, mv_in) ==
    LET child == select_child_final(children, exclude_moves)
    IN  IF child # Null THEN <<TRUE, children[child].move>>
        ELSE <<FALSE, mv_in>>

----------------------------------------------------------------------------
(* Search::check_move_cannot_change                                         *)
(* children: the root's children; count, remaining: the arguments, the      *)
(* remaining simulations being the rational remaining[1] / remaining[2].    *)

\* The loop over the root children: <<max_count, second_max_count>>
RECURSIVE cannot_change_loop(_, _, _, _)
cannot_change_loop(children, i, max_count, second_max_count) ==
    IF i > Len(children) THEN <<max_count, second_max_count>>
    ELSE LET count == children[i].count
         IN  IF count > max_count
             THEN cannot_change_loop(children, i + 1, count, max_count)
             ELSE cannot_change_loop(children, i + 1, max_count,
                                     second_max_count)

check_move_cannot_change(children, count, remaining) ==
    IF remaining[1] > count * remaining[2] THEN FALSE
    ELSE LET m == cannot_change_loop(children, 1, 0, 0)
         IN  (m[1] - m[2]) * remaining[2] > remaining[1]

----------------------------------------------------------------------------
(* Program constants *)

\* (size_t(1) << numeric_limits<Float>::digits) - 1 for Float = float
m_max_float_count == 16777215

\* numeric_limits<double>::max(), the max_time of a count-limited search,
\* in ticks (larger than every time the model's time source returns)
DblMax == 1000000000

\* Stand-in for 0.5 * numeric_limits<Float>::max().  The largest finite
\* value of a binary floating-point type is 2^(e+1) - 2^(e+1-p) (for float
\* 2^128 - 2^104), half of it 2^e - 2^(e-p): just below a power of two.
\* The stand-in keeps this form in the range of the model checker's
\* integers: 2^29 - 2^5
HalfFltMax == 536870880

\* Stand-in for numeric_limits<unsigned int>::max() (the largest integer
\* of the model checker)
UIntMax == 2147483647

\* Ticks of the time source in 0.1 s
TicksPerTenth == 3

\* get_tie_value(): an evaluation representing a 50% winning probability
TieValue == <<1, 2>>

----------------------------------------------------------------------------
(* The node arena (libboardgame_mcts/Tree.h, Node.h).  A tree is the        *)
(* sequence of its allocated nodes; the root is node 1 (slot 0) and the     *)
(* children of a node are the nch consecutive nodes from first on.          *)

NewNode(mv, count, value) == [move |-> mv, count |-> count, value |-> value, first |-> 0, nch |-> 0]

\* Tree::clear(root_value): only the root, with default statistics
Tree_clear(root_value) == <<NewNode(Null, 0, root_value)>>

\* Tree::get_nu_nodes
get_nu_nodes(tree) == Len(tree)

has_children(node) == node.nch > 0

\* The children of node i in ChildIterator order
Children(tree, i) == [k \in 1..tree[i].nch |-> tree[tree[i].first + k - 1]]

\* Node::add_value / StatisticsDirtyLockFree::add: count += 1,
\* mean += (x - mean) / count
add_stat(node, x) ==
    LET c == node.count + 1
    IN  [node EXCEPT !.count = c, !.value = Norm(<<node.value[1] * node.count * x[2] + x[1] * node.value[2], node.value[2] * c * x[2]>>)]

\* Tree::add_value on node i
Tree_add_value(tree, i, x) == [tree EXCEPT ![i] = add_stat(tree[i], x)]

\* Tree::clear_root_value: the root's count and value are reset
Tree_clear_root_value(tree, value) == [tree EXCEPT ![1].count = 0, ![1].value = value]

\* NodeExpander: is_tree_full after adding the children given by new_moves
\* to a tree with max_nodes slots
is_tree_full(tree, new_moves, max_nodes) == Len(tree) + Len(new_moves) > max_nodes

\* NodeExpander::add_child for every move, then link_children on node i
link_children(tree, i, new_moves, init_value) ==
    IF Len(new_moves) = 0 THEN tree
    ELSE [tree EXCEPT ![i].first = Len(tree) + 1, ![i].nch = Len(new_moves)]
         \o [k \in 1..Len(new_moves) |-> NewNode(new_moves[k], 0, init_value)]

\* tree_util::find_node: the node reached from the root by the moves of
\* sequence, Null if some move has no child
RECURSIVE find_node_from(_, _, _, _)
find_node_from(tree, i, sequence, k) ==
    IF k > Len(sequence) THEN i
    ELSE LET hits == {c \in 1..tree[i].nch : tree[tree[i].first + c - 1].move = sequence[k]}
         IN  IF hits = {} THEN Null
             ELSE find_node_from(tree, tree[i].first + (CHOOSE c \in hits : TRUE) - 1, sequence, k + 1)

find_node(tree, sequence) == find_node_from(tree, 1, sequence, 1)

\* Tree::copy_subtree: st = [tree, fuel, aborted] is the target tree built
\* so far, the number of nodes that are still visited before the abort
\* check fires, and whether it has fired.  Copies the data of source node
\* s to target node t and, unless the node has no children, its count is
\* below min_count or the copy is aborted, allocates and links its
\* children in the target and copies them in order.
RECURSIVE copy_node(_, _, _, _, _)
RECURSIVE copy_children(_, _, _, _, _, _, _)
copy_node(src, min_count, st, t, s) ==
    LET abort == st.fuel = 0
        data == [st.tree EXCEPT ![t] = [src[s] EXCEPT !.first = 0, !.nch = 0]]
        fuel == IF abort THEN 0 ELSE st.fuel - 1
    IN  IF src[s].nch = 0 \/ src[s].count < min_count \/ abort
        THEN [tree |-> data, fuel |-> fuel, aborted |-> st.aborted \/ abort]
        ELSE LET first == Len(data) + 1
                 linked == [data EXCEPT ![t].first = first, ![t].nch = src[s].nch] \o [k \in 1..src[s].nch |-> NewNode(Null, 0, TieValue)]
             IN  copy_children(src, min_count, [tree |-> linked, fuel |-> fuel, aborted |-> st.aborted], first, src[s].first, 0, src[s].nch)

copy_children(src, min_count, st, tfirst, sfirst, k, n) ==
    IF k = n THEN st
    ELSE copy_children(src, min_count, copy_node(src, min_count, st, tfirst + k, sfirst + k), tfirst, sfirst, k + 1, n)

\* copy_subtree(target, target root, node s): the resulting target tree and
\* whether the copy was aborted
copy_subtree(target, src, s, min_count, fuel) == copy_node(src, min_count, [tree |-> target, fuel |-> fuel, aborted |-> FALSE], 1, s)

\* Tree::extract_subtree: copy_subtree without a count filter
extract_subtree(target, src, s, fuel) == copy_subtree(target, src, s, 0, fuel)

----------------------------------------------------------------------------
(* State *)

VARIABLES
    now,                \* the last value read from the time source (ticks)
    abort,              \* libboardgame_util::get_abort()
    host,               \* the position at the root as the subclass and the
                        \* simulation states see it: nu_players, to_play,
                        \* game_len (plies to the end of the game), branch
                        \* (moves in a non-terminal position)
    cfg,                \* the parameters set by the constructor and setters
    m_tree, m_tmp_tree, m_last_reuse_param, m_reuse_count, m_max_count,
    m_min_simulations, m_max_time, m_nu_simulations,
    m_timer,            \* start time of m_timer
    prune_min_count, nu_threads,    \* locals of search()
    m_threads,          \* thread_state and position of every thread
    pc,                 \* position of the caller / controller in search()
    ret, mv,            \* result of the last search() call and the caller's mv
    nu_searches,        \* number of search() calls made
    obs,                \* history of the current search() call (see ObsInit)
    m_root_val, m_init_val,
                        \* per player, the statistics [count, value] of the
                        \* evaluations of this search, and the estimate that
                        \* is passed to gen_children
    thread_sync,        \* the Thread objects of the threads 1, 2, ...: their
                        \* mutexes, conditions and barrier, the position of
                        \* each thread in thread_main and of the caller in
                        \* create_threads / search (see SyncInit)
    f_children, f_exclude, f_count, f_remaining, f_result, f_pc,
                        \* inputs and result of a call of select_child_final,
                        \* select_move or check_move_cannot_change on its own
    f_args              \* inputs of the other computations made on their own

searchVars == <<now, abort, host, cfg, m_tree, m_tmp_tree, m_last_reuse_param, m_reuse_count, m_max_count, m_min_simulations, m_max_time, m_nu_simulations, m_timer, prune_min_count, nu_threads, m_threads, pc, ret, mv, nu_searches, obs, m_root_val, m_init_val, thread_sync>>

fnVars == <<f_children, f_exclude, f_count, f_remaining, f_result, f_pc, f_args>>

vars == <<searchVars, fnVars>>

----------------------------------------------------------------------------
(* libboardgame_util::IntervalChecker.  A checker is a record of its        *)
(* members; time_interval10 is 10 * m_time_interval in ticks.  Calls        *)
(* return [ic, ret, called, read]: the checker afterwards, the result,      *)
(* whether m_function was invoked and whether the time source was read.     *)
(* time is the value the time source returns if read, f the result of       *)
(* m_function if invoked.                                                   *)

IntervalChecker(time_interval10) == [is_first_check |-> TRUE, is_deterministic |-> FALSE, result |-> FALSE, count |-> 1, count_interval |-> 1, time_interval10 |-> time_interval10, last_time |-> 0]

set_deterministic(ic, interval) == [ic EXCEPT !.is_deterministic = TRUE, !.count = interval, !.count_interval = interval]

\* Mutant: the adjustment factor is not clamped
new_count_interval_any_factor(ic, diff) ==
    LET scaled == IF diff = 0 THEN 10 * ic.count_interval ELSE (ic.time_interval10 * ic.count_interval) \div (10 * diff)
    IN  IF scaled < 1 THEN 1 ELSE IF scaled > UIntMax THEN UIntMax ELSE scaled

\* adjust_factor * m_count_interval, clamped, as check_expensive computes it
\* (the product is computed by quotient and remainder to stay below UIntMax)
new_count_interval(ic, diff) ==
    LET ci == ic.count_interval
        ti == ic.time_interval10
        d == 10 * diff
        top == (ti * (ci % d)) \div d
        scaled == \* adjust_factor * ci, rounded down
            IF diff = 0 \/ ti > 100 * diff THEN IF ci > UIntMax \div 10 THEN UIntMax ELSE 10 * ci
            ELSE IF ti < diff THEN ci \div 10
            ELSE IF ci \div d > UIntMax \div ti THEN UIntMax
            ELSE IF ti * (ci \div d) > UIntMax - top THEN UIntMax
            ELSE ti * (ci \div d) + top
    IN  IF scaled < 1 THEN 1 ELSE scaled

\* Mutant: the predicate is invoked again after it has returned true
check_expensive_no_latch(ic, time, f) ==
    IF ic.is_deterministic
    THEN [ic |-> [ic EXCEPT !.result = f, !.count = ic.count_interval], ret |-> f, called |-> TRUE, read |-> FALSE]
    ELSE IF ~ic.is_first_check
    THEN LET ci == new_count_interval(ic, time - ic.last_time)
         IN  [ic |-> [ic EXCEPT !.count_interval = ci, !.result = f, !.last_time = time, !.count = ci], ret |-> f, called |-> TRUE, read |-> TRUE]
    ELSE [ic |-> [ic EXCEPT !.is_first_check = FALSE, !.last_time = time, !.count = ic.count_interval], ret |-> ic.result, called |-> FALSE, read |-> TRUE]

check_expensive(ic, time, f) ==
    IF ic.result THEN [ic |-> ic, ret |-> TRUE, called |-> FALSE, read |-> FALSE]
    ELSE IF ic.is_deterministic
    THEN [ic |-> [ic EXCEPT !.result = f, !.count = ic.count_interval], ret |-> f, called |-> TRUE, read |-> FALSE]
    ELSE IF ~ic.is_first_check
    THEN LET ci == new_count_interval(ic, time - ic.last_time)
         IN  [ic |-> [ic EXCEPT !.count_interval = ci, !.result = f, !.last_time = time, !.count = ci], ret |-> f, called |-> TRUE, read |-> TRUE]
    ELSE [ic |-> [ic EXCEPT !.is_first_check = FALSE, !.last_time = time, !.count = ic.count_interval], ret |-> ic.result, called |-> FALSE, read |-> TRUE]

\* IntervalChecker::operator(): if (--m_count == 0) return check_expensive();
\* else return m_result; m_count is unsigned
IntervalChecker_call(ic, time, f) ==
    LET c == IF ic.count = 0 THEN UIntMax ELSE ic.count - 1
    IN  IF c = 0 THEN check_expensive([ic EXCEPT !.count = c], time, f)
        ELSE [ic |-> [ic EXCEPT !.count = c], ret |-> ic.result, called |-> FALSE, read |-> FALSE]

----------------------------------------------------------------------------
(* The abort conditions of the search loop *)

\* expected_sim_per_sec(), a virtual function of the subclass
ExpectedSimPerSec == 5

RootChildren(tree) == Children(tree, 1)

\* Mutant: the count limit is tested with >
check_abort_gt(count, max_count) ==
    \/ count >= m_max_float_count
    \/ (max_count > 0 /\ count > max_count)

\* Search::check_abort with count = root count + m_reuse_count
check_abort(count, max_count) ==
    \/ count >= m_max_float_count
    \/ (max_count > 0 /\ count >= max_count)

\* remaining_simulations of check_abort_expensive as a rational; time is
\* m_timer() in ticks
remaining_simulations(count, time, nu_simulations, max_count, max_time) ==
    LET r == IF max_count = 0
             THEN IF time = 0 THEN <<(max_time - time) * ExpectedSimPerSec, 10 * TicksPerTenth>>
                  ELSE <<(max_time - time) * nu_simulations, time>>
             ELSE <<max_count - count, 1>>
    IN  IF count * r[2] + r[1] > m_max_float_count * r[2] THEN <<m_max_float_count - count, 1>> ELSE r

\* Mutant: the abort flag is not tested
check_abort_expensive_no_flag(get_abort, children, count, time, deterministic, nu_simulations, max_count, max_time) ==
    IF ~deterministic /\ time < TicksPerTenth THEN FALSE
    ELSE IF max_count = 0 /\ time > max_time THEN TRUE
    ELSE check_move_cannot_change(children, count, remaining_simulations(count, time, nu_simulations, max_count, max_time))

\* Search::check_abort_expensive; children are the root's children, count
\* is root count + m_reuse_count, time is m_timer() in ticks
check_abort_expensive(get_abort, children, count, time, deterministic, nu_simulations, max_count, max_time) ==
    IF get_abort THEN TRUE
    ELSE IF ~deterministic /\ time < TicksPerTenth THEN FALSE
    ELSE IF max_count = 0 /\ time > max_time THEN TRUE
    ELSE check_move_cannot_change(children, count, remaining_simulations(count, time, nu_simulations, max_count, max_time))

----------------------------------------------------------------------------
(* The search.  P is the record of the sets the inputs of a specification   *)
(* are drawn from (see the specifications at the end).                      *)

\* Search::get_reuse_param
get_reuse_param(c) == [empty |-> FALSE, rave |-> c.m_rave, weight_rave_updates |-> c.m_weight_rave_updates, rave_equivalence |-> c.m_rave_equivalence]

\* A default-constructed Parameters object
NoParameters == [empty |-> TRUE, rave |-> FALSE, weight_rave_updates |-> FALSE, rave_equivalence |-> 0]

\* What a thread's last pass through the top of the search loop did with
\* check_abort_expensive: whether it was evaluated, the value of
\* get_abort() and of m_timer() it saw, and its result
NoCheck == [called |-> FALSE, get_abort |-> FALSE, time |-> 0, ret |-> FALSE]

\* ThreadState and position of a thread; is_out_of_mem is not initialized
\* by create_threads; first and written are the first slot and the number
\* of children written of the thread's NodeExpander; idx, loaded and eval
\* are the number of path nodes update_values has updated, the statistics
\* add_value has read and the evaluation of the simulation
ThreadInit(oom) == [pc |-> "idle", is_out_of_mem |-> oom, nodes |-> <<>>, is_terminal |-> FALSE, checker |-> IntervalChecker(0), left_by |-> "none", chk |-> NoCheck, first |-> 0, written |-> 0, idx |-> 0, loaded |-> <<>>, eval |-> <<>>]

\* History of the current search() call: cleared / installed: the prelude
\* cleared the live tree / installed an extracted subtree; the arguments
\* of the call; completed: simulations backed up; nodes_before: the
\* number of nodes of the live tree when search() was called; node: the
\* node of that tree find_node returned (Null: none); always_search: the
\* argument of a call whose extraction was aborted; prune: what became of
\* the last out-of-memory round ("none": there was none); abort_at_end: the
\* abort flag when search() returned; last_nu_simulations: the value of
\* m_nu_simulations when search() was called (the simulation count of the
\* previous search); last_max_count: likewise the value of m_max_count
ObsInit == [cleared |-> FALSE, installed |-> FALSE, early_return |-> FALSE, kind |-> "none", seq_len |-> 0, param_changed |-> FALSE, completed |-> 0, aborted |-> FALSE, nodes_before |-> 0, node |-> Null, always_search |-> FALSE, prune |-> "none", abort_at_end |-> FALSE, last_nu_simulations |-> 0, last_max_count |-> 0]

Threads == DOMAIN m_threads

\* Number of Thread objects with a thread of their own in the checks of
\* the start / finish handshake
MaxSyncThreads == 2

\* Before create_threads.  caller: the position of the thread that calls
\* search(), the Thread object i it is working on and the number of
\* rounds of the while loop of search() it has completed.  t[i]: the
\* position pc of thread i in thread_main ("none": not created), the
\* owners of m_start_search_mutex and m_search_finished_mutex, whether a
\* thread is blocked in m_start_search.wait / m_search_finished.wait,
\* the number of threads that reached m_thread_ready, and the numbers of
\* start_search_loop calls completed (starts), of search-loop executions
\* begun (runs) and ended (done), and of wait_search_loop_finished calls
\* that returned (returned)
SyncInit ==
    [caller |-> [pc |-> "create", i |-> 1, rounds |-> 0],
     t |-> [i \in 1..MaxSyncThreads |-> [pc |-> "none", m_quit |-> FALSE, m_start_search_mutex |-> "none", m_search_finished_mutex |-> "none", m_start_search |-> FALSE, m_search_finished |-> FALSE, m_thread_ready |-> 0, starts |-> 0, runs |-> 0, done |-> 0, returned |-> 0]]]

\* StatisticsDirtyLockFree: clear() and add(); the statistics are records
\* with the count and the mean (value)
StatClear == [count |-> 0, value |-> <<0, 1>>]

StatAdd(stat, x) == add_stat(stat, x)

\* The start of search(): m_init_val is cleared and gets the tie value;
\* for the same position, or a follow-up position not more than one move
\* per player away, the root values of the last search replace it
seed_init_val(root_val, is_same, is_followup, sequence) ==
    [p \in DOMAIN root_val |->
        IF (is_same \/ (is_followup /\ Len(sequence) <= host.nu_players)) /\ root_val[p].count > 0
        THEN root_val[p]
        ELSE StatAdd(StatClear, TieValue)]

\* The end of update_values: the evaluation of every player is added to
\* m_root_val and to m_init_val
add_eval(val, eval) == [p \in DOMAIN val |-> StatAdd(val[p], eval[p])]

SearchInit(P) ==
    /\ now = 0
    /\ abort = FALSE
    /\ host \in [nu_players : P.players, to_play : {0}, game_len : P.game_lens, branch : P.branches]
    /\ cfg \in [m_nu_threads : P.threads, m_deterministic : P.deterministic, m_reuse_subtree : P.reuse_subtree, m_reuse_tree : P.reuse_tree, m_prune_full_tree : P.prune_full_tree, m_expand_threshold : P.expand_thresholds, m_prune_count_start : P.prune_count_starts, m_rave : {FALSE}, m_weight_rave_updates : {TRUE}, m_rave_equivalence : {1000}, m_max_nodes : P.max_nodes]
    /\ m_tree = Tree_clear(<<0, 1>>)
    /\ m_tmp_tree = Tree_clear(<<0, 1>>)
    /\ m_last_reuse_param = NoParameters
    /\ m_reuse_count = 0
    /\ m_max_count = 0
    /\ m_min_simulations = 0
    /\ m_max_time = 0
    /\ m_nu_simulations = 0
    /\ m_timer = 0
    /\ prune_min_count = 0
    /\ nu_threads = 0
    /\ m_threads \in {[i \in 0..(cfg.m_nu_threads - 1) |-> ThreadInit(i \in S)] : S \in SUBSET (1..(cfg.m_nu_threads - 1))}
    /\ pc = "idle"
    /\ ret = FALSE
    /\ mv = Null
    /\ nu_searches = 0
    /\ obs = ObsInit
    /\ m_root_val = [p \in 0..(host.nu_players - 1) |-> StatClear]
    /\ m_init_val = [p \in 0..(host.nu_players - 1) |-> StatClear]
    /\ thread_sync = SyncInit

\* The moves the simulation state generates in a position depth plies
\* below the root (State::gen_children)
gen_children(depth) == IF depth < host.game_len THEN [k \in 1..host.branch |-> k] ELSE <<>>

\* The player of move number j (from 0) of a simulation
PlayerOfMove(j) == (host.to_play + j) % host.nu_players

\* The node paths play_in_tree can follow from the root to a node without
\* children (select_child picks one child of every node on the way)
RECURSIVE PathsFrom(_, _)
PathsFrom(tree, path) ==
    LET node == tree[path[Len(path)]]
    IN  IF ~has_children(node) THEN {path}
        ELSE UNION {PathsFrom(tree, Append(path, node.first + k - 1)) : k \in 1..node.nch}

\* All sequences over S of a length in lens
RECURSIVE SeqsOfLen(_, _)
SeqsOfLen(S, n) == IF n = 0 THEN {<<>>} ELSE {Append(q, x) : q \in SeqsOfLen(S, n - 1), x \in S}

\* The times the time source can return next
TimesFrom(t, P) == t..P.max_now

\* What check_followup reports about the new root position and the
\* position itself: a position unrelated to the previous one, the same
\* position, or one reached by a move sequence
Followups(P) ==
    {[kind |-> "new", sequence |-> <<>>, host |-> h] : h \in [nu_players : {host.nu_players}, to_play : {0}, game_len : P.game_lens, branch : P.branches]}
    \cup (IF nu_searches = 0 THEN {} ELSE
          {[kind |-> "same", sequence |-> <<>>, host |-> host]}
          \cup {[kind |-> "followup", sequence |-> q, host |-> [host EXCEPT !.game_len = @ - Len(q), !.to_play = (@ + Len(q)) % host.nu_players]] :
                q \in UNION {SeqsOfLen(1..host.branch, n) : n \in {l \in P.seq_lens : l <= host.game_len}}})

\* The points at which the abort check of a subtree copy can fire: at once
\* if the abort flag is set, anywhere if the time limit of the copy can be
\* exceeded while it runs, never otherwise (never: the value max_nodes)
CopyFuels(budget, time_left, max_nodes) ==
    IF abort THEN {0}
    ELSE IF ~cfg.m_deterministic /\ time_left > budget THEN 0..max_nodes
    ELSE {max_nodes}

\* Mutant: only the time limit makes a search single-threaded
nu_threads_used_time_only(max_count, max_time, reuse_count) ==
    IF max_time < 5 * TicksPerTenth THEN 1 ELSE cfg.m_nu_threads

\* The number of threads search() uses
nu_threads_used(max_count, max_time, reuse_count) ==
    IF \/ max_time < 5 * TicksPerTenth
       \/ (max_count > 0 /\ 2 * (max_count - reuse_count) < ExpectedSimPerSec)
    THEN 1 ELSE cfg.m_nu_threads

\* Mutant: the reuse-relevant parameters are not compared
reuse_condition_any_param(is_followup, is_same) ==
    (cfg.m_reuse_subtree /\ is_followup) \/ (cfg.m_reuse_tree /\ is_same)

\* Mutant: subtrees are reused whether or not m_reuse_subtree is set
reuse_condition_any_followup(is_followup, is_same) ==
    /\ is_followup \/ (cfg.m_reuse_tree /\ is_same)
    /\ get_reuse_param(cfg) = m_last_reuse_param

\* The condition of search() for reusing (a part of) the tree
reuse_condition(is_followup, is_same) ==
    /\ (cfg.m_reuse_subtree /\ is_followup) \/ (cfg.m_reuse_tree /\ is_same)
    /\ get_reuse_param(cfg) = m_last_reuse_param

\* Mutant: an aborted extraction ends search() whatever always_search is
aborted_extraction_returns_always(aborted, always_search) == aborted

\* The test of search() after the extraction of a subtree
aborted_extraction_returns(aborted, always_search) == aborted /\ ~always_search

\* m_threads with every thread outside search_loop
AllIdle == [i \in Threads |-> [m_threads[i] EXCEPT !.pc = "idle", !.left_by = "none", !.chk = NoCheck]]

\* search() from its start to the search loop (or to its early return)
StartSearch(P) ==
    /\ pc = "idle"
    /\ nu_searches < P.max_searches
    /\ \E budget \in P.budgets, min_simulations \in P.min_simulations, always_search \in P.always_search, fu \in Followups(P), t1 \in TimesFrom(now, P) :
        LET max_count == budget.max_count
            max_time0 == IF max_count > 0 THEN DblMax ELSE budget.max_time
            is_same == fu.kind = "same"
            is_followup == fu.kind = "followup"
            tree_nodes == get_nu_nodes(m_tree)
            extracting == reuse_condition(is_followup, is_same) /\ fu.sequence # <<>>
            node == IF extracting THEN find_node(m_tree, fu.sequence) ELSE Null
            found == node # Null
        IN  /\ (~found => t1 = now)
            /\ \E fuel \in (IF found THEN CopyFuels(max_time0, t1 - now, cfg.m_max_nodes) ELSE {0}) :
                LET ex == IF found THEN extract_subtree(Tree_clear(TieValue), m_tree, node, fuel) ELSE [tree |-> Tree_clear(TieValue), aborted |-> FALSE]
                    tmp == Tree_clear_root_value(ex.tree, TieValue)
                    early == found /\ aborted_extraction_returns(ex.aborted, always_search)
                    swap == found /\ ~early /\ tree_nodes > 1 /\ get_nu_nodes(tmp) > 1
                    time == t1 - now
                    max_time == IF swap THEN (IF max_time0 - time < 0 THEN 0 ELSE max_time0 - time) ELSE max_time0
                    reuse_count == IF found THEN ex.tree[1].count ELSE 0
                    o == [ObsInit EXCEPT !.kind = fu.kind, !.seq_len = Len(fu.sequence), !.param_changed = (get_reuse_param(cfg) # m_last_reuse_param), !.nodes_before = tree_nodes, !.aborted = ex.aborted, !.node = node, !.always_search = (ex.aborted /\ always_search), !.last_nu_simulations = m_nu_simulations, !.last_max_count = m_max_count]
                IN  /\ host' = fu.host
                    /\ now' = t1
                    /\ m_reuse_count' = reuse_count
                    /\ m_tmp_tree' = IF ~extracting THEN m_tmp_tree ELSE IF swap THEN m_tree ELSE tmp
                    /\ nu_searches' = nu_searches + 1
                    /\ m_init_val' = seed_init_val(m_root_val, is_same, is_followup, fu.sequence)
                    /\ IF early
                       THEN /\ pc' = "idle"
                            /\ ret' = FALSE
                            /\ obs' = [o EXCEPT !.early_return = TRUE]
                            /\ UNCHANGED <<m_tree, m_last_reuse_param, m_max_count, m_min_simulations, m_max_time, m_nu_simulations, m_timer, prune_min_count, nu_threads, m_threads, m_root_val>>
                       ELSE /\ m_tree' = IF swap THEN tmp ELSE Tree_clear(TieValue)
                            /\ m_last_reuse_param' = get_reuse_param(cfg)
                            /\ m_timer' = t1
                            /\ m_max_count' = max_count
                            /\ m_min_simulations' = min_simulations
                            /\ m_max_time' = max_time
                            /\ m_nu_simulations' = 0
                            /\ m_root_val' = [p \in DOMAIN m_root_val |-> StatClear]
                            /\ prune_min_count' = cfg.m_prune_count_start
                            /\ nu_threads' = nu_threads_used(max_count, max_time, reuse_count)
                            /\ m_threads' = AllIdle
                            /\ pc' = "launch"
                            /\ obs' = [o EXCEPT !.cleared = ~swap, !.installed = swap]
                            /\ UNCHANGED ret
    /\ UNCHANGED <<abort, cfg, mv, fnVars, thread_sync>>

\* The interval at which a thread checks the expensive abort conditions
\* (start of search_loop)
expensive_abort_checker ==
    LET ic == IntervalChecker(IF m_max_count = 0 /\ m_max_time < 10 * TicksPerTenth THEN m_max_time ELSE 10 * TicksPerTenth)
        interval == IF ExpectedSimPerSec \div 5 < 1 THEN 1 ELSE ExpectedSimPerSec \div 5
    IN  IF cfg.m_deterministic THEN set_deterministic(ic, interval) ELSE ic

\* Top of the while loop of search(): the threads 1 .. nu_threads - 1 are
\* told to start their search loop and the caller enters search_loop as
\* thread 0
LaunchRound ==
    /\ pc = "launch"
    /\ m_threads' = [i \in Threads |-> IF i < nu_threads THEN [m_threads[i] EXCEPT !.pc = "top", !.checker = expensive_abort_checker, !.left_by = "none", !.nodes = <<>>] ELSE m_threads[i]]
    /\ pc' = "running"
    /\ UNCHANGED <<now, abort, host, cfg, m_tree, m_tmp_tree, m_last_reuse_param, m_reuse_count, m_max_count, m_min_simulations, m_max_time, m_nu_simulations, m_timer, prune_min_count, nu_threads, ret, mv, nu_searches, obs, fnVars, m_root_val, m_init_val, thread_sync>>

\* Mutant: the count of the reused subtree is not added
abort_count_no_reuse(root_count, reuse_count) == root_count

\* The count check_abort and check_abort_expensive compare with the limits
abort_count(root_count, reuse_count) == root_count + reuse_count

\* search_loop of thread w from the top of an iteration to the abort
\* decision
LoopTop(w, P) ==
    /\ pc = "running"
    /\ m_threads[w].pc = "top"
    /\ m_nu_simulations < P.max_simulations \/ (P.live /\ abort)
    /\ LET nu_simulations == m_nu_simulations
           root_count == m_tree[1].count
           count == abort_count(root_count, m_reuse_count)
           checks == root_count > 0 /\ nu_simulations > m_min_simulations
           cheap == checks /\ check_abort(count, m_max_count)
       IN  /\ m_nu_simulations' = nu_simulations + 1
           /\ \E t1 \in TimesFrom(now, P) : \E t2 \in TimesFrom(t1, P) :
                LET f == check_abort_expensive(abort, RootChildren(m_tree), count, t2 - m_timer, cfg.m_deterministic, nu_simulations + 1, m_max_count, m_max_time)
                    r == IF checks /\ ~cheap THEN IntervalChecker_call(m_threads[w].checker, t1, f)
                         ELSE [ic |-> m_threads[w].checker, ret |-> FALSE, called |-> FALSE, read |-> FALSE]
                    leave == cheap \/ r.ret
                IN  /\ (~r.read => t1 = now)
                    /\ (~r.called => t2 = t1)
                    /\ now' = t2
                    /\ m_threads' = [m_threads EXCEPT ![w] = [@ EXCEPT !.is_out_of_mem = FALSE, !.checker = r.ic, !.nodes = IF leave THEN @ ELSE <<1>>,
                                                                   !.pc = IF leave THEN "exited" ELSE "tree",
                                                                   !.left_by = IF cheap THEN "check_abort" ELSE IF r.ret THEN "expensive" ELSE "none",
                                                                   !.chk = [called |-> r.called, get_abort |-> abort, time |-> t2 - m_timer, ret |-> r.called /\ f]]]
    /\ UNCHANGED <<abort, host, cfg, m_tree, m_tmp_tree, m_last_reuse_param, m_reuse_count, m_max_count, m_min_simulations, m_max_time, m_timer, prune_min_count, nu_threads, pc, ret, mv, nu_searches, obs, fnVars, m_root_val, m_init_val, thread_sync>>

\* Mutant: the simulation goes on after a failed expansion
returns_out_of_mem_never(is_out_of_mem) == FALSE

\* search_loop after play_in_tree: if (thread_state.is_out_of_mem) return
returns_out_of_mem(is_out_of_mem) == is_out_of_mem

\* play_in_tree of thread w along one path, with the expansion of the node
\* it ends in (best_child: the child the expansion reports as the one to
\* play); a failed expansion makes the thread leave search_loop
PlayInTree(w) ==
    /\ pc = "running"
    /\ m_threads[w].pc = "tree"
    /\ \E path \in PathsFrom(m_tree, <<1>>), best_child \in 1..host.branch :
        LET node == path[Len(path)]
            expand == m_tree[node].count >= cfg.m_expand_threshold \/ node = 1
            new_moves == gen_children(Len(path) - 1)
            full == expand /\ is_tree_full(m_tree, new_moves, cfg.m_max_nodes)
            linked == expand /\ ~full /\ Len(new_moves) > 0
        IN  /\ (~linked => best_child = 1)
            /\ m_tree' = IF linked THEN link_children(m_tree, node, new_moves, TieValue) ELSE m_tree
            /\ m_threads' = [m_threads EXCEPT ![w] = [@ EXCEPT !.is_out_of_mem = full,
                                                           !.is_terminal = expand /\ ~full /\ Len(new_moves) = 0,
                                                           !.chk = NoCheck,
                                                           !.nodes = IF linked THEN Append(path, Len(m_tree) + best_child) ELSE path,
                                                           !.pc = IF returns_out_of_mem(full) THEN "exited" ELSE "backup",
                                                           !.left_by = IF returns_out_of_mem(full) THEN "out_of_mem" ELSE "none"]]
    /\ UNCHANGED <<now, abort, host, cfg, m_tmp_tree, m_last_reuse_param, m_reuse_count, m_max_count, m_min_simulations, m_max_time, m_nu_simulations, m_timer, prune_min_count, nu_threads, pc, ret, mv, nu_searches, obs, fnVars, m_root_val, m_init_val, thread_sync>>

\* Mutant: every node of the path gets the evaluation of the player to
\* move at the root
RECURSIVE update_values_root_player_from(_, _, _, _)
update_values_root_player_from(tree, nodes, eval, i) ==
    IF i > Len(nodes) THEN tree
    ELSE update_values_root_player_from(Tree_add_value(tree, nodes[i], eval[PlayerOfMove(0)]), nodes, eval, i + 1)

update_values_root_player(tree, nodes, eval) == update_values_root_player_from(tree, nodes, eval, 1)

\* Search::update_values: the root gets the evaluation of the player to
\* move at the root, node i of the path that of the player of move i - 1
RECURSIVE update_values_from(_, _, _, _)
update_values_from(tree, nodes, eval, i) ==
    IF i > Len(nodes) THEN tree
    ELSE update_values_from(Tree_add_value(tree, nodes[i], eval[PlayerOfMove(IF i = 1 THEN 0 ELSE i - 2)]), nodes, eval, i + 1)

update_values(tree, nodes, eval) == update_values_from(tree, nodes, eval, 1)

\* The playout, the evaluation and the backup of the simulation of thread w
Backup(w, P) ==
    /\ pc = "running"
    /\ m_threads[w].pc = "backup"
    /\ \E eval \in [0..(host.nu_players - 1) -> P.evals] :
        /\ m_tree' = update_values(m_tree, m_threads[w].nodes, eval)
        /\ m_root_val' = add_eval(m_root_val, eval)
        /\ m_init_val' = add_eval(m_init_val, eval)
    /\ m_threads' = [m_threads EXCEPT ![w].pc = "top"]
    /\ obs' = [obs EXCEPT !.completed = @ + 1]
    /\ UNCHANGED <<now, abort, host, cfg, m_tmp_tree, m_last_reuse_param, m_reuse_count, m_max_count, m_min_simulations, m_max_time, m_nu_simulations, m_timer, prune_min_count, nu_threads, pc, ret, mv, nu_searches, fnVars, thread_sync>>

\* The end of Search::prune: the integer percentage of the nodes that
\* were kept, the result of prune() and the new value of prune_min_count
\* (the caller's variable is not written when prune() returns false)
new_prune_min_count(nu_nodes_tmp, nu_nodes, min_count) ==
    LET percent == (nu_nodes_tmp * 100) \div nu_nodes
    IN  IF percent > 50
        THEN IF min_count >= HalfFltMax THEN [ok |-> FALSE, prune_min_count |-> min_count]
             ELSE [ok |-> TRUE, prune_min_count |-> min_count * 2]
        ELSE [ok |-> TRUE, prune_min_count |-> min_count]

\* Mutant: prune() reports success whatever happened
prune_always_ok(tree, min_count, fuel) ==
    LET cp == copy_subtree(Tree_clear(tree[1].value), tree, 1, min_count, fuel)
        end == new_prune_min_count(get_nu_nodes(cp.tree), get_nu_nodes(tree), min_count)
    IN  IF cp.aborted THEN [ok |-> TRUE, aborted |-> TRUE, tree |-> tree, tmp_tree |-> cp.tree, prune_min_count |-> min_count]
        ELSE [ok |-> TRUE, aborted |-> FALSE, tree |-> cp.tree, tmp_tree |-> tree, prune_min_count |-> end.prune_min_count]

\* Search::prune: [ok, aborted, tree, tmp_tree, prune_min_count]; aborted:
\* the copy was aborted
prune(tree, min_count, fuel) ==
    LET cp == copy_subtree(Tree_clear(tree[1].value), tree, 1, min_count, fuel)
        end == new_prune_min_count(get_nu_nodes(cp.tree), get_nu_nodes(tree), min_count)
    IN  IF cp.aborted THEN [ok |-> FALSE, aborted |-> TRUE, tree |-> tree, tmp_tree |-> cp.tree, prune_min_count |-> min_count]
        ELSE [ok |-> end.ok, aborted |-> FALSE, tree |-> cp.tree, tmp_tree |-> tree, prune_min_count |-> end.prune_min_count]

\* Mutant: only the caller's own search loop is waited for
all_search_loops_finished_own == m_threads[0].pc = "exited"

\* search_loop of the caller has returned and wait_search_loop_finished
\* has returned for every thread started in this round
all_search_loops_finished == \A i \in Threads : i < nu_threads => m_threads[i].pc = "exited"

\* search() after search_loop returned and the started threads finished:
\* the out-of-memory test, pruning and either the next round or the final
\* move selection and the return
RoundEnd(P) ==
    /\ pc = "running"
    /\ all_search_loops_finished
    /\ LET is_out_of_mem == \E i \in Threads : m_threads[i].is_out_of_mem
           pruning == is_out_of_mem /\ cfg.m_prune_full_tree
       IN  \E t \in TimesFrom(now, P) : \E t_end \in TimesFrom(t, P) : \E fuel \in (IF pruning THEN CopyFuels(m_max_time - (t - m_timer), t_end - t, cfg.m_max_nodes) ELSE {0}) :
            LET pr == IF pruning THEN prune(m_tree, prune_min_count, fuel)
                      ELSE [ok |-> FALSE, aborted |-> FALSE, tree |-> m_tree, tmp_tree |-> m_tmp_tree, prune_min_count |-> prune_min_count]
                sel == select_move(RootChildren(pr.tree), {}, mv)
                outcome == IF ~is_out_of_mem THEN "none" ELSE IF ~pruning THEN "disabled" ELSE IF pr.aborted THEN "aborted" ELSE IF pr.ok THEN "pruned" ELSE "failed"
            IN  /\ (~pruning => t = now)
                /\ (~(pruning /\ pr.ok) => t_end = t)
                /\ now' = t_end
                /\ m_tree' = pr.tree
                /\ m_tmp_tree' = pr.tmp_tree
                /\ prune_min_count' = pr.prune_min_count
                /\ m_threads' = AllIdle
                /\ IF pr.ok
                   THEN pc' = "launch" /\ obs' = [obs EXCEPT !.prune = outcome] /\ UNCHANGED <<ret, mv>>
                   ELSE pc' = "idle" /\ obs' = [obs EXCEPT !.prune = outcome, !.abort_at_end = abort] /\ ret' = sel[1] /\ mv' = sel[2]
    /\ UNCHANGED <<abort, host, cfg, m_last_reuse_param, m_reuse_count, m_max_count, m_min_simulations, m_max_time, m_nu_simulations, m_timer, nu_threads, nu_searches, fnVars, m_root_val, m_init_val, thread_sync>>

\* libboardgame_util::set_abort / clear_abort, called by any thread
SetAbort ==
    /\ ~abort
    /\ abort' = TRUE
    /\ UNCHANGED <<now, host, cfg, m_tree, m_tmp_tree, m_last_reuse_param, m_reuse_count, m_max_count, m_min_simulations, m_max_time, m_nu_simulations, m_timer, prune_min_count, nu_threads, m_threads, pc, ret, mv, nu_searches, obs, fnVars, m_root_val, m_init_val, thread_sync>>

ClearAbort ==
    /\ abort
    /\ pc = "idle"
    /\ abort' = FALSE
    /\ UNCHANGED <<now, host, cfg, m_tree, m_tmp_tree, m_last_reuse_param, m_reuse_count, m_max_count, m_min_simulations, m_max_time, m_nu_simulations, m_timer, prune_min_count, nu_threads, m_threads, pc, ret, mv, nu_searches, obs, fnVars, m_root_val, m_init_val, thread_sync>>

\* set_rave, set_weight_rave_updates, set_rave_equivalence between searches
SetReuseParam(P) ==
    /\ pc = "idle"
    /\ nu_searches > 0
    /\ nu_searches < P.max_searches
    /\ \E r \in BOOLEAN, w \in BOOLEAN, e \in P.rave_equivalences :
        /\ cfg' = [cfg EXCEPT !.m_rave = r, !.m_weight_rave_updates = w, !.m_rave_equivalence = e]
        /\ cfg' # cfg
    /\ UNCHANGED <<now, abort, host, m_tree, m_tmp_tree, m_last_reuse_param, m_reuse_count, m_max_count, m_min_simulations, m_max_time, m_nu_simulations, m_timer, prune_min_count, nu_threads, m_threads, pc, ret, mv, nu_searches, obs, fnVars, m_root_val, m_init_val, thread_sync>>

----------------------------------------------------------------------------
(* Final move selection and check_move_cannot_change on their own: the      *)
(* inputs are drawn by the initial state and one call is made.              *)

\* Largest count argument of a call of check_move_cannot_change on its own
MaxRootCount == 6

\* The child lists of a node: up to MaxChildren children, child k with
\* move k, any count up to MaxCnt and any value of vals
ChildLists(vals) ==
    UNION {[1..n -> [count : 0..MaxCnt, value : vals]] : n \in 0..MaxChildren}

WithMoves(cs) == [k \in DOMAIN cs |-> [move |-> k, count |-> cs[k].count, value |-> cs[k].value]]

\* Largest number of nodes of a tree in a call of the end of prune() on
\* its own
MaxPruneNodes == 52

\* The values of prune_min_count in such a call: the default start value,
\* one doubling of it and the values around the stand-in for half of the
\* largest Float
PruneMinCounts == {16, 32, HalfFltMax \div 2, HalfFltMax - 1, HalfFltMax, HalfFltMax + 32}

\* No call on its own is made or pending
FnIdle ==
    /\ f_children = <<>>
    /\ f_exclude = {}
    /\ f_count = 0
    /\ f_remaining = <<0, 1>>
    /\ f_result = Null
    /\ f_pc = "none"
    /\ f_args = <<>>

\* A search object that is constructed and not used
PQuiet == [players |-> {2}, game_lens |-> {1}, branches |-> {1}, threads |-> {1}, deterministic |-> {TRUE}, reuse_subtree |-> {TRUE}, reuse_tree |-> {FALSE}, prune_full_tree |-> {TRUE}, expand_thresholds |-> {0}, prune_count_starts |-> {16}, max_nodes |-> {4}]

FnInit ==
    /\ SearchInit(PQuiet)
    /\ f_result = Null
    /\ \/ /\ f_pc \in {"select_child_final", "select_move"}
          /\ f_children \in {WithMoves(cs) : cs \in ChildLists(Values)}
          /\ f_exclude \in SUBSET (1..MaxChildren)
          /\ f_count = 0
          /\ f_remaining = <<0, 1>>
          /\ f_args = <<>>
       \/ /\ f_pc = "check_move_cannot_change"
          /\ f_children \in {WithMoves(cs) : cs \in ChildLists({TieValue})}
          /\ f_exclude = {}
          /\ f_count \in 0..MaxRootCount
          /\ f_remaining \in {<<n, d>> : n \in 0..(2 * MaxRemaining), d \in {1, 2}}
          /\ f_args = <<>>
       \/ /\ f_pc = "new_prune_min_count"
          /\ f_children = <<>>
          /\ f_exclude = {}
          /\ f_count = 0
          /\ f_remaining = <<0, 1>>
          /\ f_args \in {[nu_nodes_tmp |-> a, nu_nodes |-> b, prune_min_count |-> c] : a \in 1..MaxPruneNodes, b \in 1..MaxPruneNodes, c \in PruneMinCounts}
          /\ f_args.nu_nodes_tmp <= f_args.nu_nodes

CallSelectChildFinal ==
    /\ f_pc = "select_child_final"
    /\ f_result' = select_child_final(f_children, f_exclude)
    /\ f_pc' = "select_child_final_done"
    /\ UNCHANGED <<searchVars, f_children, f_exclude, f_count, f_remaining, f_args>>

\* The caller's mv holds Null before the call
CallSelectMove ==
    /\ f_pc = "select_move"
    /\ f_result' = select_move(f_children, f_exclude, Null)
    /\ f_pc' = "select_move_done"
    /\ UNCHANGED <<searchVars, f_children, f_exclude, f_count, f_remaining, f_args>>

CallCheckMoveCannotChange ==
    /\ f_pc = "check_move_cannot_change"
    /\ f_result' = check_move_cannot_change(f_children, f_count, f_remaining)
    /\ f_pc' = "check_move_cannot_change_done"
    /\ UNCHANGED <<searchVars, f_children, f_exclude, f_count, f_remaining, f_args>>

\* The end of prune() after a copy that was not aborted
CallNewPruneMinCount ==
    /\ f_pc = "new_prune_min_count"
    /\ f_result' = new_prune_min_count(f_args.nu_nodes_tmp, f_args.nu_nodes, f_args.prune_min_count)
    /\ f_pc' = "new_prune_min_count_done"
    /\ UNCHANGED <<searchVars, f_children, f_exclude, f_count, f_remaining, f_args>>

FnNext == CallSelectChildFinal \/ CallSelectMove \/ CallCheckMoveCannotChange \/ CallNewPruneMinCount

FnSpec == FnInit /\ [][FnNext]_vars

\* Child a is better than child b in the order count, then value, then
\* earlier position
Better(cs, a, b) ==
    \/ cs[a].count > cs[b].count
    \/ cs[a].count = cs[b].count /\ ValGT(cs[a].value, cs[b].value)
    \/ cs[a].count = cs[b].count /\ cs[a].value = cs[b].value /\ a <= b

Allowed(cs, excl) == {k \in DOMAIN cs : cs[k].move \notin excl}

\* C1: select_child_final without an exclude set returns the child with the
\* highest count, among those the one with the highest value, among those
\* the earliest; it returns no child only when there are no children
C1_SelectChildFinalOrder ==
    (f_pc = "select_child_final_done" /\ f_exclude = {}) =>
        /\ (f_result = Null) <=> (Len(f_children) = 0)
        /\ f_result # Null => (f_result \in DOMAIN f_children /\ \A k \in DOMAIN f_children : Better(f_children, f_result, k))

C1_Witness ==
    /\ f_pc = "select_child_final_done"
    /\ f_exclude = {}
    /\ f_result = 2
    /\ Len(f_children) = 3
    /\ f_children[1].count < f_children[2].count
    /\ f_children[3].count = f_children[2].count
    /\ f_children[3].value = f_children[2].value

\* C2: select_move with an exclude set returns the best child (count, then
\* value, then position) among the children whose move is not excluded and
\* writes its move; it returns false and leaves mv as it was exactly when
\* no child is left after the exclusion
C2_SelectMoveExclude ==
    f_pc = "select_move_done" =>
        LET allowed == Allowed(f_children, f_exclude)
        IN  /\ f_result[1] = (allowed # {})
            /\ ~f_result[1] => f_result[2] = Null
            /\ f_result[1] =>
                /\ f_result[2] \notin f_exclude
                /\ \E r \in allowed : f_children[r].move = f_result[2] /\ \A k \in allowed : Better(f_children, r, k)

C2_Witness ==
    /\ f_pc = "select_move_done"
    /\ f_exclude = {1}
    /\ Len(f_children) = 3
    /\ f_children[1].count > f_children[2].count
    /\ f_children[2].count > f_children[3].count
    /\ f_result = <<TRUE, 2>>

\* The largest and the second-largest element of the multiset of the
\* children's counts (0 if there is no such element)
TrueMax(cs) == IF Len(cs) = 0 THEN 0 ELSE CHOOSE m \in {cs[k].count : k \in DOMAIN cs} : \A k \in DOMAIN cs : cs[k].count <= m

TrueSecondMax(cs) ==
    IF Len(cs) < 2 THEN 0
    ELSE LET top == CHOOSE k \in DOMAIN cs : cs[k].count = TrueMax(cs)
         IN  CHOOSE m \in {cs[k].count : k \in DOMAIN cs \ {top}} : \A k \in DOMAIN cs \ {top} : cs[k].count <= m

\* C8: check_move_cannot_change returns true only if the highest child
\* count m1 and the second-highest child count m2 (of the multiset of the
\* counts) satisfy m1 > m2 + remaining
C8_CannotChangeSound ==
    (f_pc = "check_move_cannot_change_done" /\ f_result = TRUE) =>
        (TrueMax(f_children) - TrueSecondMax(f_children)) * f_remaining[2] > f_remaining[1]

----------------------------------------------------------------------------
(* Specifications of the search *)

SearchNext(P) ==
    \/ StartSearch(P)
    \/ LaunchRound
    \/ \E w \in Threads : LoopTop(w, P)
    \/ \E w \in Threads : PlayInTree(w)
    \/ \E w \in Threads : Backup(w, P)
    \/ RoundEnd(P)
    \/ SetAbort
    \/ ClearAbort

\* Largest number of simulations started in one search() call
MaxSimulations == 4

\* Searches with a count limit by up to three threads with small trees;
\* the clock does not advance
PCount == [players |-> {2}, game_lens |-> {0, 2}, branches |-> {2}, threads |-> {1, 3}, deterministic |-> {TRUE}, reuse_subtree |-> {TRUE}, reuse_tree |-> {FALSE}, prune_full_tree |-> {TRUE, FALSE}, expand_thresholds |-> {0}, prune_count_starts |-> {16}, max_nodes |-> {3, 5}, max_now |-> 0, seq_lens |-> {1}, max_searches |-> 1, budgets |-> {[max_count |-> 3, max_time |-> 0]}, min_simulations |-> {0, 2}, always_search |-> {TRUE}, max_simulations |-> MaxSimulations, live |-> FALSE, evals |-> {<<1, 1>>}, rave_equivalences |-> {1000}]

Init == SearchInit(PCount) /\ FnIdle

Next == SearchNext(PCount)

Spec == Init /\ [][Next]_vars

\* C3: a search() call that ran its search loop returns true and writes the
\* move of a root child exactly when the root of the live tree has a child
\* when the loop has ended; otherwise it returns false and writes no move
C3_ResultIffRootHasChildren ==
    [][(pc = "running" /\ pc' = "idle") =>
        /\ ret' = has_children(m_tree'[1])
        /\ ret' => \E k \in DOMAIN RootChildren(m_tree') : RootChildren(m_tree')[k].move = mv'
        /\ ~ret' => mv' = mv]_vars

C3_Witness ==
    /\ pc = "idle"
    /\ nu_searches = 1
    /\ ~obs.early_return
    /\ ret
    /\ mv = 2
    /\ obs.completed >= 2

\* A search() call that ran its loop returned false
C3_WitnessNoMove ==
    /\ pc = "idle"
    /\ nu_searches = 1
    /\ ~obs.early_return
    /\ ~ret
    /\ host.game_len > 0

\* C4: no thread leaves the search loop by an abort condition (check_abort
\* or the expensive abort check) before m_min_simulations simulations of
\* the call have been performed
C4_MinSimulationsPerformed ==
    \A w \in Threads :
        m_threads[w].left_by \in {"check_abort", "expensive"} => obs.completed >= m_min_simulations

\* Largest value of the time source in the searches with a time limit
MaxNow == 4

\* Searches with a time limit shorter and longer than 0.1 s by one thread
PTime == [players |-> {2}, game_lens |-> {1}, branches |-> {2}, threads |-> {1}, deterministic |-> {TRUE, FALSE}, reuse_subtree |-> {TRUE}, reuse_tree |-> {FALSE}, prune_full_tree |-> {TRUE}, expand_thresholds |-> {0}, prune_count_starts |-> {16}, max_nodes |-> {5}, max_now |-> MaxNow, seq_lens |-> {1}, max_searches |-> 1, budgets |-> {[max_count |-> 0, max_time |-> 1], [max_count |-> 0, max_time |-> 3]}, min_simulations |-> {0}, always_search |-> {TRUE}, max_simulations |-> MaxSimulations, live |-> FALSE, evals |-> {<<0, 1>>, <<1, 1>>}, rave_equivalences |-> {1000}]

TimeInit == SearchInit(PTime) /\ FnIdle

TimeNext == SearchNext(PTime)

TimeSpec == TimeInit /\ [][TimeNext]_vars

\* C6: in a search with a time limit, an evaluation of the expensive abort
\* check at an elapsed time greater than m_max_time returns true and the
\* thread leaves the search loop, in deterministic and non-deterministic
\* mode and for every m_max_time
C6_TimeLimitHonoured ==
    \A w \in Threads :
        (pc = "running" /\ m_max_count = 0 /\ m_threads[w].chk.called /\ m_threads[w].chk.time > m_max_time) =>
            (m_threads[w].chk.ret /\ m_threads[w].pc = "exited")

\* Largest number of threads of a search object
MaxThreads == 2

\* Searches that only end by themselves after many simulations, by up to
\* MaxThreads threads; a thread goes on beyond MaxSimulations once the
\* abort flag is set
PLive == [players |-> {2}, game_lens |-> {0, 1}, branches |-> {1}, threads |-> 1..MaxThreads, deterministic |-> {TRUE, FALSE}, reuse_subtree |-> {TRUE}, reuse_tree |-> {FALSE}, prune_full_tree |-> {TRUE, FALSE}, expand_thresholds |-> {0}, prune_count_starts |-> {16}, max_nodes |-> {1, 3}, max_now |-> 1, seq_lens |-> {1}, max_searches |-> 1, budgets |-> {[max_count |-> 0, max_time |-> 20], [max_count |-> 100, max_time |-> 0]}, min_simulations |-> {0, 2}, always_search |-> {TRUE}, max_simulations |-> 3, live |-> TRUE, evals |-> {<<1, 1>>}, rave_equivalences |-> {1000}]

LiveInit == SearchInit(PLive) /\ FnIdle

LiveNext == SearchNext(PLive)

\* The steps of thread w in search_loop
Worker(w) == w \in Threads /\ (LoopTop(w, PLive) \/ PlayInTree(w) \/ Backup(w, PLive))

\* The steps of the caller of search() between the search loops
Controller == LaunchRound \/ RoundEnd(PLive)

\* Every thread that can take a step eventually takes one
LiveSpec ==
    /\ LiveInit
    /\ [][LiveNext]_vars
    /\ \A w \in 0..(MaxThreads - 1) : WF_vars(Worker(w))
    /\ WF_vars(Controller)

\* C7: if the abort flag is set while a search is running and stays set,
\* every thread eventually leaves its search loop and search() returns; an
\* evaluation of the expensive abort check with the flag set returns true,
\* whatever the elapsed time, and the thread leaves the loop
C7_AbortHonoured ==
    /\ (abort /\ pc \in {"launch", "running"}) ~> (pc = "idle")
    /\ [](\A w \in Threads : (m_threads[w].chk.called /\ m_threads[w].chk.get_abort) => (m_threads[w].chk.ret /\ m_threads[w].pc = "exited"))

C7_Witness ==
    /\ abort
    /\ pc = "running"
    /\ m_max_count = 0
    /\ ~cfg.m_deterministic
    /\ \E w \in Threads :
        /\ m_threads[w].chk.called
        /\ m_threads[w].chk.get_abort
        /\ m_threads[w].chk.time < TicksPerTenth
        /\ m_threads[w].left_by = "expensive"

\* Two consecutive searches by one thread, the second on the same position,
\* a follow-up position or an unrelated one, with the reuse-relevant
\* parameters changed or unchanged in between
PReuse == [players |-> {1, 2}, game_lens |-> {0, 3}, branches |-> {1, 2}, threads |-> {1}, deterministic |-> {TRUE}, reuse_subtree |-> {TRUE, FALSE}, reuse_tree |-> {TRUE, FALSE}, prune_full_tree |-> {TRUE}, expand_thresholds |-> {0}, prune_count_starts |-> {16}, max_nodes |-> {4}, max_now |-> 0, seq_lens |-> {1, 2}, max_searches |-> 2, budgets |-> {[max_count |-> 3, max_time |-> 0]}, min_simulations |-> {0, 2}, always_search |-> {TRUE, FALSE}, max_simulations |-> MaxSimulations, live |-> FALSE, evals |-> {<<1, 1>>}, rave_equivalences |-> {500, 1000}]

ReuseInit == SearchInit(PReuse) /\ FnIdle

ReuseNext == SearchNext(PReuse) \/ SetReuseParam(PReuse)

ReuseSpec == ReuseInit /\ [][ReuseNext]_vars

\* C5: in a search by one thread with max_count > 0 and min_simulations +
\* reuse_count < max_count, root count + reuse_count never exceeds max_count
C5_CountWithinBudget ==
    (/\ nu_searches > 0
     /\ ~obs.early_return
     /\ nu_threads = 1
     /\ m_max_count > 0
     /\ m_min_simulations + m_reuse_count < m_max_count) =>
        m_tree[1].count + m_reuse_count <= m_max_count

C5_Witness ==
    /\ pc = "running"
    /\ nu_threads = 1
    /\ m_reuse_count > 0
    /\ m_min_simulations + m_reuse_count < m_max_count
    /\ m_tree[1].count > 0
    /\ m_tree[1].count + m_reuse_count = m_max_count
    /\ m_threads[0].left_by = "check_abort"

\* C9: if get_reuse_param() differs from the parameters recorded by the
\* previous search, search() starts from a live tree cleared to a single
\* root, whatever check_followup reports and whatever the reuse flags are
C9_ParamChangeClearsTree ==
    [][(pc = "idle" /\ nu_searches' = nu_searches + 1 /\ get_reuse_param(cfg) # m_last_reuse_param) =>
        /\ pc' = "launch"
        /\ m_tree' = Tree_clear(TieValue)
        /\ m_reuse_count' = 0]_vars

C9_Witness ==
    /\ pc = "launch"
    /\ nu_searches = 2
    /\ m_nu_simulations = 0
    /\ obs.param_changed
    /\ obs.kind = "followup"
    /\ cfg.m_reuse_subtree
    /\ obs.nodes_before > 2
    /\ m_tree = Tree_clear(TieValue)

\* C10 as stated: a subtree is installed only for a follow-up sequence of
\* length at most the number of players; for a longer sequence the search
\* starts from a cleared tree
C10_InstallOnlyShortSequence ==
    /\ obs.installed => obs.seq_len <= host.nu_players
    /\ (pc = "launch" /\ obs.kind = "followup" /\ obs.seq_len > host.nu_players) => obs.cleared

\* C10: a subtree is extracted and installed as the live tree only when
\* m_reuse_subtree is set, check_followup reports a non-empty follow-up
\* sequence (of any length), the reuse-relevant parameters are unchanged
\* and both the previous tree and the extracted subtree have more than one
\* node; the previous tree becomes the scratch tree
C10_InstallCondition ==
    [][(pc = "idle" /\ nu_searches' = nu_searches + 1 /\ obs'.installed) =>
        /\ cfg.m_reuse_subtree
        /\ obs'.kind = "followup"
        /\ obs'.seq_len >= 1
        /\ get_reuse_param(cfg) = m_last_reuse_param
        /\ get_nu_nodes(m_tree) > 1
        /\ get_nu_nodes(m_tree') > 1
        /\ m_tmp_tree' = m_tree]_vars

C10_Witness ==
    /\ pc = "launch"
    /\ obs.installed
    /\ obs.seq_len = 2
    /\ host.nu_players = 1
    /\ get_nu_nodes(m_tree) > 1
    /\ m_reuse_count > 0


----------------------------------------------------------------------------
(* Reuse of the whole tree, of a subtree and the aborted extraction.        *)

\* C11: with m_reuse_tree set, unchanged reuse parameters and a root
\* position check_followup reports as the same position (empty sequence),
\* search() keeps the whole tree of the previous search: when the threads
\* are started for the first time the tree has not been cleared and has
\* the nodes it had when the previous search returned
C11_SamePositionKeepsTree ==
    (pc = "launch" /\ m_nu_simulations = 0 /\ cfg.m_reuse_tree /\ obs.kind = "same" /\ ~obs.param_changed) =>
        (~obs.cleared /\ get_nu_nodes(m_tree) = obs.nodes_before)

\* C12: when a subtree is installed for a follow-up position, the count
\* and the value of its root are cleared and m_reuse_count is the count
\* the root of the subtree had in the previous tree; in a count-limited
\* search a thread leaves by check_abort exactly when root count +
\* m_reuse_count has reached max_count, and leaves by the expensive check
\* (abort flag not set) only if the best move cannot change within
\* max_count - (root count + m_reuse_count) further simulations
C12_SubtreeReuseCount ==
    [][/\ (pc = "idle" /\ nu_searches' = nu_searches + 1 /\ obs'.installed) =>
            /\ obs'.node \notin {Null, 1}
            /\ m_reuse_count' = m_tree[obs'.node].count
            /\ m_tree'[1].count = 0
            /\ m_tree'[1].value = TieValue
            /\ m_tree'[1].move = m_tree[obs'.node].move
       /\ \A w \in Threads :
            (pc = "running" /\ m_threads[w].pc = "top" /\ m_threads'[w].pc # "top" /\ m_max_count > 0) =>
                LET sum == m_tree[1].count + m_reuse_count
                    checks == m_tree[1].count > 0 /\ m_nu_simulations > m_min_simulations
                IN  /\ (m_threads'[w].left_by = "check_abort") <=> (checks /\ sum >= m_max_count)
                    /\ (m_threads'[w].left_by = "expensive" /\ ~abort) =>
                            check_move_cannot_change(RootChildren(m_tree), sum, <<m_max_count - sum, 1>>)
      ]_vars

C12_Witness ==
    /\ pc = "running"
    /\ obs.installed
    /\ obs.node > 1
    /\ m_reuse_count > 0
    /\ m_tree[1].count > 0
    /\ m_tree[1].count < m_max_count
    /\ m_threads[0].left_by = "check_abort"

\* Largest number of simulations started in a search with an extraction
MaxExtractSimulations == 3

\* Two searches, the second on a follow-up position, with a clock that
\* can advance while the subtree is extracted: in non-deterministic mode
\* the extraction for a time-limited second search can be aborted at any
\* node
PExtract == [players |-> {1}, game_lens |-> {3}, branches |-> {2}, threads |-> {1}, deterministic |-> {FALSE}, reuse_subtree |-> {TRUE}, reuse_tree |-> {FALSE}, prune_full_tree |-> {TRUE}, expand_thresholds |-> {0}, prune_count_starts |-> {16}, max_nodes |-> {7}, max_now |-> 1, seq_lens |-> {1}, max_searches |-> 2, budgets |-> {[max_count |-> 2, max_time |-> 0], [max_count |-> 0, max_time |-> 0]}, min_simulations |-> {0}, always_search |-> {TRUE, FALSE}, max_simulations |-> MaxExtractSimulations, live |-> FALSE, evals |-> {<<1, 1>>}, rave_equivalences |-> {1000}]

ExtractInit == SearchInit(PExtract) /\ FnIdle

ExtractNext == SearchNext(PExtract)

ExtractSpec == ExtractInit /\ [][ExtractNext]_vars

\* C13: if the extraction of the subtree is aborted and always_search is
\* false, search() returns false without starting a thread or a
\* simulation and leaves the live tree as it was; if always_search is true
\* the search goes on to the thread launch, with the partially extracted
\* tree (root value cleared) as the live tree when the previous tree and
\* the partial tree have more than one node, and a cleared tree otherwise
C13_AbortedExtraction ==
    [][(pc = "idle" /\ nu_searches' = nu_searches + 1 /\ obs'.aborted) =>
        IF ~obs'.always_search
        THEN /\ pc' = "idle"
             /\ ret' = FALSE
             /\ m_tree' = m_tree
             /\ m_threads' = m_threads
             /\ m_nu_simulations' = m_nu_simulations
        ELSE /\ pc' = "launch"
             /\ \E fuel \in 0..cfg.m_max_nodes :
                    LET ex == extract_subtree(Tree_clear(TieValue), m_tree, obs'.node, fuel)
                        partial == Tree_clear_root_value(ex.tree, TieValue)
                    IN  /\ ex.aborted
                        /\ m_tree' = IF get_nu_nodes(m_tree) > 1 /\ get_nu_nodes(partial) > 1 THEN partial ELSE Tree_clear(TieValue)
      ]_vars

\* An aborted extraction without always_search after a search that built a
\* tree
C13_Witness ==
    /\ pc = "idle"
    /\ nu_searches = 2
    /\ obs.early_return
    /\ obs.aborted
    /\ ~obs.always_search
    /\ ~ret
    /\ get_nu_nodes(m_tree) > 1
    /\ get_nu_nodes(m_tmp_tree) > 1
    /\ get_nu_nodes(m_tmp_tree) < get_nu_nodes(m_tree)

\* A search that goes on with a partially extracted tree of more than one
\* node
C13_WitnessPartial ==
    /\ pc = "launch"
    /\ nu_searches = 2
    /\ obs.aborted
    /\ obs.always_search
    /\ obs.installed
    /\ get_nu_nodes(m_tree) > 1

----------------------------------------------------------------------------
(* Pruning.                                                                 *)

\* C14: after a pruning cycle that completes (prune() returns true),
\* prune_min_count for the next cycle is twice its previous value if the
\* pruned tree keeps more than 50% of the nodes the tree had before, and
\* unchanged if it keeps 50% or less, for every pair of node counts
C14_DoubleAboveHalf ==
    (f_pc = "new_prune_min_count_done" /\ f_result.ok) =>
        f_result.prune_min_count = IF 2 * f_args.nu_nodes_tmp > f_args.nu_nodes THEN 2 * f_args.prune_min_count ELSE f_args.prune_min_count

\* Largest number of simulations started in a search with pruning: above
\* the number the searches on the inputs below can start
MaxPruneSimulations == 60

\* Searches on an arena that is too small for the children of the root
\* (2 nodes) or for those of a child of the root (3 nodes), with one and
\* two threads, with the default start value of prune_min_count and with
\* a small and a large one set by set_prune_count_start
PPrune == [players |-> {2}, game_lens |-> {2}, branches |-> {2}, threads |-> {1, 2}, deterministic |-> {TRUE}, reuse_subtree |-> {TRUE}, reuse_tree |-> {FALSE}, prune_full_tree |-> {TRUE, FALSE}, expand_thresholds |-> {0, 2}, prune_count_starts |-> {2, 16, 402653184}, max_nodes |-> {2, 3}, max_now |-> 0, seq_lens |-> {1}, max_searches |-> 1, budgets |-> {[max_count |-> 3, max_time |-> 0]}, min_simulations |-> {0}, always_search |-> {TRUE}, max_simulations |-> MaxPruneSimulations, live |-> FALSE, evals |-> {<<1, 1>>}, rave_equivalences |-> {1000}]

PruneInit == SearchInit(PPrune) /\ FnIdle

PruneNext == SearchNext(PPrune)

PruneSpec == PruneInit /\ [][PruneNext]_vars

\* C15: across the pruning cycles of one search the doubling of
\* prune_min_count is capped at half of the largest Float:
\* prune_min_count never takes a value above it
C15_PruneMinCountCapped ==
    prune_min_count <= HalfFltMax

\* C16: when a round ends out of memory and the tree is not recovered
\* (pruning is disabled, the pruning copy is aborted or prune() fails at
\* the cap), no thread is started again and search() returns the result of
\* the final selection on the live tree: true with the move of the best
\* root child (count, then value, then position) whenever the root has a
\* child, false otherwise
C16_UnrecoveredOutOfMemory ==
    [][(pc = "running" /\ pc' # "running" /\ obs'.prune \in {"disabled", "aborted", "failed"}) =>
        LET cs == RootChildren(m_tree')
        IN  /\ pc' = "idle"
            /\ \A i \in Threads : m_threads'[i].pc = "idle"
            /\ m_nu_simulations' = m_nu_simulations
            /\ ret' = (Len(cs) > 0)
            /\ ret' => \E k \in DOMAIN cs : mv' = cs[k].move /\ \A j \in DOMAIN cs : Better(cs, k, j)
      ]_vars

\* Pruning disabled: the search ends with the move of a root child
C16_Witness ==
    /\ pc = "idle"
    /\ obs.prune = "disabled"
    /\ \E i \in Threads : m_threads[i].is_out_of_mem
    /\ ret
    /\ obs.completed > 0
    /\ mv \in {RootChildren(m_tree)[k].move : k \in 1..m_tree[1].nch}

\* The pruning copy was aborted: the tree is the one the threads left
C16_WitnessAborted ==
    /\ pc = "idle"
    /\ obs.prune = "aborted"
    /\ ret
    /\ get_nu_nodes(m_tree) = cfg.m_max_nodes

\* prune() failed at the cap of prune_min_count
C16_WitnessFailed ==
    /\ pc = "idle"
    /\ obs.prune = "failed"
    /\ prune_min_count >= HalfFltMax

\* Thread record th is inside search_loop
InSearchLoop(th) == th.pc \notin {"idle", "exited"}

\* C17: pruning and the swap of the trees are executed only while no
\* thread is inside its search loop: the caller prunes after its own
\* search loop returned and every thread started in the round finished;
\* threads enter the search loop only by the start of a round, which
\* leaves both trees as the swap left them; the scratch tree is written
\* only while no thread is in the loop
C17_PruneOutsideSearchLoops ==
    [][/\ (pc = "running" /\ pc' # "running" /\ obs'.prune \in {"pruned", "aborted", "failed"}) =>
            \A i \in Threads : ~InSearchLoop(m_threads[i]) /\ ~InSearchLoop(m_threads'[i])
       /\ (\E i \in Threads : ~InSearchLoop(m_threads[i]) /\ InSearchLoop(m_threads'[i])) =>
            (pc = "launch" /\ pc' = "running" /\ m_tree' = m_tree /\ m_tmp_tree' = m_tmp_tree)
       /\ (m_tmp_tree' # m_tmp_tree) => \A i \in Threads : ~InSearchLoop(m_threads[i])
      ]_vars

\* Two threads run again after a pruning cycle swapped the trees
C17_Witness ==
    /\ pc = "running"
    /\ obs.prune = "pruned"
    /\ nu_threads = 2
    /\ get_nu_nodes(m_tmp_tree) > 1
    /\ InSearchLoop(m_threads[0])
    /\ InSearchLoop(m_threads[1])

\* The live tree never holds more nodes than the arena has slots, and an
\* expansion that does not fit sets is_out_of_mem and leaves the tree as
\* it was (the part of C18 about the capacity)
ArenaBound ==
    [][/\ get_nu_nodes(m_tree') <= cfg.m_max_nodes
       /\ \A w \in Threads :
            (pc = "running" /\ m_threads[w].pc = "tree" /\ m_threads'[w].left_by = "out_of_mem") =>
                (m_tree' = m_tree /\ m_threads'[w].is_out_of_mem)
      ]_vars

\* C18: with an arena of N nodes the live tree holds at most N nodes in
\* every state, across concurrent expansions and pruning cycles; an
\* expansion whose children do not fit fails with out-of-memory and links
\* no children; and with pruning enabled the search still returns a move
\* (here: for a search that is not aborted, on a position that has moves,
\* with an arena the children of the root fit in)
C18_ArenaBoundAndMove ==
    [][/\ get_nu_nodes(m_tree') <= cfg.m_max_nodes
       /\ \A w \in Threads :
            (pc = "running" /\ m_threads[w].pc = "tree" /\ m_threads'[w].left_by = "out_of_mem") =>
                (m_tree' = m_tree /\ m_threads'[w].is_out_of_mem)
       /\ (pc = "running" /\ pc' = "idle" /\ cfg.m_prune_full_tree /\ ~abort /\ host.game_len > 0 /\ 1 + host.branch <= cfg.m_max_nodes) => ret'
      ]_vars

----------------------------------------------------------------------------
(* The expansion of a node step by step.  play_in_tree descends to a node   *)
(* without children; expand_node constructs a NodeExpander for it, lets     *)
(* gen_children add the children and calls link_children unless the tree    *)
(* is full.  Between the descent of one thread and its link_children other  *)
(* threads run: they can descend to the same node and expand it too.        *)

\* A slot of the arena that is reserved and not written yet
UninitNode == [move |-> -1, count |-> -1, value |-> <<0, 1>>, first |-> 0, nch |-> 0]

IsInitialized(node) == node.move >= 0 /\ node.count >= 0

\* The while loop of play_in_tree of thread w: the path it follows
Descend(w) ==
    /\ pc = "running"
    /\ m_threads[w].pc = "tree"
    /\ \E path \in PathsFrom(m_tree, <<1>>) :
        LET node == path[Len(path)]
            expand == m_tree[node].count >= cfg.m_expand_threshold \/ node = 1
        IN  m_threads' = [m_threads EXCEPT ![w] = [@ EXCEPT !.nodes = path, !.chk = NoCheck, !.is_terminal = FALSE, !.pc = IF expand THEN "expand" ELSE "backup"]]
    /\ UNCHANGED <<now, abort, host, cfg, m_tree, m_tmp_tree, m_last_reuse_param, m_reuse_count, m_max_count, m_min_simulations, m_max_time, m_nu_simulations, m_timer, prune_min_count, nu_threads, pc, ret, mv, nu_searches, obs, fnVars, m_root_val, m_init_val, thread_sync>>

\* expand_node of thread w up to the reservation of the slots of the
\* children: a range that does not fit makes the expansion fail, a
\* position without moves makes the simulation terminal
ReserveChildren(w) ==
    /\ pc = "running"
    /\ m_threads[w].pc = "expand"
    /\ LET new_moves == gen_children(Len(m_threads[w].nodes) - 1)
           full == is_tree_full(m_tree, new_moves, cfg.m_max_nodes)
       IN  /\ m_tree' = IF full THEN m_tree ELSE m_tree \o [k \in 1..Len(new_moves) |-> UninitNode]
           /\ m_threads' = [m_threads EXCEPT ![w] = [@ EXCEPT !.is_out_of_mem = full,
                                                          !.is_terminal = ~full /\ Len(new_moves) = 0,
                                                          !.first = Len(m_tree) + 1,
                                                          !.written = 0,
                                                          !.pc = IF full THEN "exited" ELSE IF Len(new_moves) = 0 THEN "backup" ELSE "write",
                                                          !.left_by = IF full THEN "out_of_mem" ELSE "none"]]
    /\ UNCHANGED <<now, abort, host, cfg, m_tmp_tree, m_last_reuse_param, m_reuse_count, m_max_count, m_min_simulations, m_max_time, m_nu_simulations, m_timer, prune_min_count, nu_threads, pc, ret, mv, nu_searches, obs, fnVars, m_root_val, m_init_val, thread_sync>>

\* NodeExpander::add_child called by gen_children: the next child slot of
\* the expansion of thread w is written
WriteChild(w) ==
    /\ pc = "running"
    /\ m_threads[w].pc = "write"
    /\ LET new_moves == gen_children(Len(m_threads[w].nodes) - 1)
           k == m_threads[w].written
       IN  /\ k < Len(new_moves)
           /\ m_tree' = [m_tree EXCEPT ![m_threads[w].first + k] = NewNode(new_moves[k + 1], 0, TieValue)]
           /\ m_threads' = [m_threads EXCEPT ![w].written = k + 1]
    /\ UNCHANGED <<now, abort, host, cfg, m_tmp_tree, m_last_reuse_param, m_reuse_count, m_max_count, m_min_simulations, m_max_time, m_nu_simulations, m_timer, prune_min_count, nu_threads, pc, ret, mv, nu_searches, obs, fnVars, m_root_val, m_init_val, thread_sync>>

\* Mutant: link_children does not wait for gen_children
children_written_early(th, nu_children) == TRUE

\* gen_children has returned: every child of the expansion is written
children_written(th, nu_children) == th.written = nu_children

\* link_children of the expansion of thread w: first child and number of
\* children are stored in the node, whatever the node holds by then;
\* best_child is the child the expansion reports as the one to play
LinkChildren(w) ==
    /\ pc = "running"
    /\ m_threads[w].pc = "write"
    /\ LET th == m_threads[w]
           node == th.nodes[Len(th.nodes)]
           nu_children == Len(gen_children(Len(th.nodes) - 1))
       IN  /\ children_written(th, nu_children)
           /\ \E best_child \in 1..nu_children :
                /\ m_tree' = [m_tree EXCEPT ![node].first = th.first, ![node].nch = nu_children]
                /\ m_threads' = [m_threads EXCEPT ![w] = [@ EXCEPT !.nodes = Append(th.nodes, th.first + best_child - 1), !.pc = "backup"]]
    /\ UNCHANGED <<now, abort, host, cfg, m_tmp_tree, m_last_reuse_param, m_reuse_count, m_max_count, m_min_simulations, m_max_time, m_nu_simulations, m_timer, prune_min_count, nu_threads, pc, ret, mv, nu_searches, obs, fnVars, m_root_val, m_init_val, thread_sync>>

\* The search with the expansion in steps
ArenaSearchNext(P) ==
    \/ StartSearch(P)
    \/ LaunchRound
    \/ \E w \in Threads : LoopTop(w, P)
    \/ \E w \in Threads : Descend(w)
    \/ \E w \in Threads : ReserveChildren(w)
    \/ \E w \in Threads : WriteChild(w)
    \/ \E w \in Threads : LinkChildren(w)
    \/ \E w \in Threads : Backup(w, P)
    \/ RoundEnd(P)
    \/ SetAbort
    \/ ClearAbort

\* Largest number of simulations started in a search with the expansion in
\* steps
MaxArenaSimulations == 4

\* Count-limited searches by two threads on a position with 2 moves
PArena == [players |-> {2}, game_lens |-> {2}, branches |-> {2}, threads |-> {2}, deterministic |-> {TRUE}, reuse_subtree |-> {TRUE}, reuse_tree |-> {FALSE}, prune_full_tree |-> {TRUE}, expand_thresholds |-> {0}, prune_count_starts |-> {16}, max_nodes |-> {5, 7}, max_now |-> 0, seq_lens |-> {1}, max_searches |-> 1, budgets |-> {[max_count |-> 3, max_time |-> 0]}, min_simulations |-> {0}, always_search |-> {TRUE}, max_simulations |-> MaxArenaSimulations, live |-> FALSE, evals |-> {<<1, 1>>}, rave_equivalences |-> {1000}]

ArenaInit == SearchInit(PArena) /\ FnIdle

ArenaNext == ArenaSearchNext(PArena)

ArenaSpec == ArenaInit /\ [][ArenaNext]_vars

\* C19: publish before observe: whenever a node has a non-zero child
\* count, every child slot it refers to has been written completely (move
\* and statistics), so a thread that observes the children of a node never
\* reads an unwritten slot
C19_PublishBeforeObserve ==
    \A i \in 1..Len(m_tree) :
        m_tree[i].nch > 0 =>
            \A k \in 0..(m_tree[i].nch - 1) :
                /\ m_tree[i].first + k \in 1..Len(m_tree)
                /\ IsInitialized(m_tree[m_tree[i].first + k])

\* A thread has descended through the children of the root while the
\* slots reserved by another thread are not written yet
C19_Witness ==
    /\ pc = "running"
    /\ m_tree[1].nch > 0
    /\ \E i \in 1..Len(m_tree) : ~IsInitialized(m_tree[i])
    /\ \E w \in Threads : m_threads[w].pc \in {"expand", "backup"} /\ Len(m_threads[w].nodes) >= 2

\* The sum of the child counts of the nodes i .. Len(tree) of the arena
RECURSIVE SumChildCounts(_, _)
SumChildCounts(tree, i) == IF i > Len(tree) THEN 0 ELSE tree[i].nch + SumChildCounts(tree, i + 1)

\* The slots node i refers to as its children
ChildSlots(tree, i) == {tree[i].first + k : k \in 0..(tree[i].nch - 1)}

\* C20: arena discipline: after any number of expansions by concurrent
\* threads, two threads that reach the same node without children at the
\* same time included, the number of allocated slots is one for the root
\* plus the sum of the child counts of all nodes, and no slot is a child
\* of more than one node (stated for the states in which no expansion is
\* under way)
C20_ArenaDiscipline ==
    (pc = "running" /\ \A w \in Threads : m_threads[w].pc \notin {"expand", "write"}) =>
        /\ get_nu_nodes(m_tree) = 1 + SumChildCounts(m_tree, 1)
        /\ \A i, j \in 1..Len(m_tree) : i # j => ChildSlots(m_tree, i) \cap ChildSlots(m_tree, j) = {}

\* C21: within one tree instance (no swap, no clear: the search loop is
\* running before and after the step), once the children of a node are
\* linked its first-child index and its child count never change again,
\* in every interleaving of threads that select, expand and back up
C21_LinkImmutable ==
    [][(pc = "running" /\ pc' = "running") =>
        \A i \in 1..Len(m_tree) :
            m_tree[i].nch > 0 => (m_tree'[i].first = m_tree[i].first /\ m_tree'[i].nch = m_tree[i].nch)
      ]_vars

----------------------------------------------------------------------------
(* The backup step by step.  update_values calls add_value for the root     *)
(* and every node of the path; add_value reads count and value of the node, *)
(* computes the new pair and writes it back, without a lock, so the         *)
(* updates of other threads can come between the read and the write.        *)

\* add_value of thread w on the next node of its path, up to the read of
\* the node's count and value (the evaluation is fixed when the backup
\* starts)
BackupLoad(w, P) ==
    /\ pc = "running"
    /\ m_threads[w].pc = "backup"
    /\ \E eval \in [0..(host.nu_players - 1) -> P.evals] :
        LET th == m_threads[w]
            node == m_tree[th.nodes[th.idx + 1]]
        IN  /\ (th.idx > 0 => eval = th.eval)
            /\ m_threads' = [m_threads EXCEPT ![w] = [@ EXCEPT !.eval = eval, !.loaded = [count |-> node.count, value |-> node.value], !.pc = "store"]]
    /\ UNCHANGED <<now, abort, host, cfg, m_tree, m_tmp_tree, m_last_reuse_param, m_reuse_count, m_max_count, m_min_simulations, m_max_time, m_nu_simulations, m_timer, prune_min_count, nu_threads, pc, ret, mv, nu_searches, obs, fnVars, m_root_val, m_init_val, thread_sync>>

\* The rest of add_value: the pair computed from the values read is
\* written to the node; after the last node of the path the simulation is
\* complete
BackupStore(w) ==
    /\ pc = "running"
    /\ m_threads[w].pc = "store"
    /\ LET th == m_threads[w]
           i == th.idx + 1
           n == th.nodes[i]
           x == th.eval[PlayerOfMove(IF i = 1 THEN 0 ELSE i - 2)]
           last == i = Len(th.nodes)
       IN  /\ m_tree' = [m_tree EXCEPT ![n] = add_stat([@ EXCEPT !.count = th.loaded.count, !.value = th.loaded.value], x)]
           /\ m_threads' = [m_threads EXCEPT ![w] = [@ EXCEPT !.idx = IF last THEN 0 ELSE i, !.loaded = <<>>, !.eval = IF last THEN <<>> ELSE @, !.pc = IF last THEN "top" ELSE "backup"]]
           /\ obs' = [obs EXCEPT !.completed = IF last THEN @ + 1 ELSE @]
           /\ m_root_val' = IF last THEN add_eval(m_root_val, th.eval) ELSE m_root_val
           /\ m_init_val' = IF last THEN add_eval(m_init_val, th.eval) ELSE m_init_val
    /\ UNCHANGED <<now, abort, host, cfg, m_tmp_tree, m_last_reuse_param, m_reuse_count, m_max_count, m_min_simulations, m_max_time, m_nu_simulations, m_timer, prune_min_count, nu_threads, pc, ret, mv, nu_searches, fnVars, thread_sync>>

\* The search with the backup in steps
StatSearchNext(P) ==
    \/ StartSearch(P)
    \/ LaunchRound
    \/ \E w \in Threads : LoopTop(w, P)
    \/ \E w \in Threads : PlayInTree(w)
    \/ \E w \in Threads : BackupLoad(w, P)
    \/ \E w \in Threads : BackupStore(w)
    \/ RoundEnd(P)
    \/ SetAbort
    \/ ClearAbort

\* Largest number of simulations started in a search with the backup in
\* steps
MaxStatSimulations == 4

\* Count-limited searches by two threads on positions at the end of the
\* game and one move before it
PStat == [players |-> {2}, game_lens |-> {0, 1}, branches |-> {1}, threads |-> {2}, deterministic |-> {TRUE}, reuse_subtree |-> {TRUE}, reuse_tree |-> {FALSE}, prune_full_tree |-> {TRUE}, expand_thresholds |-> {0}, prune_count_starts |-> {16}, max_nodes |-> {3}, max_now |-> 0, seq_lens |-> {1}, max_searches |-> 1, budgets |-> {[max_count |-> 3, max_time |-> 0]}, min_simulations |-> {0}, always_search |-> {TRUE}, max_simulations |-> MaxStatSimulations, live |-> FALSE, evals |-> {<<0, 1>>, <<1, 1>>}, rave_equivalences |-> {1000}]

StatInit == SearchInit(PStat) /\ FnIdle

StatNext == StatSearchNext(PStat)

StatSpec == StatInit /\ [][StatNext]_vars

\* C22: monotone counts: while the tree instance is not swapped or cleared
\* (the search loop is running before and after the step), the count of
\* no node of the live tree decreases, for any number of threads that
\* update the statistics without locks
C22_MonotoneCounts ==
    [][(pc = "running" /\ pc' = "running") =>
        \A i \in 1..Len(m_tree) : m_tree'[i].count >= m_tree[i].count
      ]_vars

----------------------------------------------------------------------------
(* copy_subtree and extract_subtree on their own, called as prune() and     *)
(* search() call them, on every tree of a bounded family.                   *)

\* Largest count of a node of a source tree, and largest min_count
MaxCopyCount == 2

\* Largest number of children of a node of a source tree
MaxCopyBranch == 2

\* Number of expansions that build a source tree
MaxGrow == 2

\* The counts of the children of one expansion
ChildCountLists == UNION {[1..n -> 0..MaxCopyCount] : n \in 1..MaxCopyBranch}

\* The tree after the expansion of its childless node i with the moves
\* 1..Len(cs), whose children have the counts cs
Grow(tree, i, cs) ==
    [tree EXCEPT ![i].first = Len(tree) + 1, ![i].nch = Len(cs)] \o [k \in 1..Len(cs) |-> NewNode(k, cs[k], TieValue)]

\* The trees built by at most n expansions
RECURSIVE GrowTrees(_)
GrowTrees(n) ==
    IF n = 0 THEN {<<NewNode(Null, c, TieValue)>> : c \in 0..MaxCopyCount}
    ELSE LET T == GrowTrees(n - 1)
         IN  T \cup UNION {{Grow(tree, i, cs) : cs \in ChildCountLists} : <<tree, i>> \in {<<t, j>> \in T \X (1..(1 + MaxGrow * MaxCopyBranch)) : j <= Len(t) /\ t[j].nch = 0}}

SourceTrees == GrowTrees(MaxGrow)

CopyInit ==
    /\ SearchInit(PQuiet)
    /\ f_result = Null
    /\ f_children = <<>>
    /\ f_exclude = {}
    /\ f_count = 0
    /\ f_remaining = <<0, 1>>
    /\ f_pc \in {"copy_subtree", "extract_subtree"}
    /\ f_args \in UNION {{[tree |-> t, node |-> s, min_count |-> c, fuel |-> f] : s \in 1..Len(t), c \in 0..MaxCopyCount, f \in {2, Len(t) + 1}} : t \in SourceTrees}
    /\ (f_pc = "copy_subtree" => f_args.node = 1)
    /\ (f_pc = "extract_subtree" => f_args.min_count = 0)

\* Mutant: prune() copies with the count 0 in place of prune_min_count
CallCopySubtreeUnfiltered ==
    /\ f_pc = "copy_subtree"
    /\ f_result' = copy_subtree(Tree_clear(f_args.tree[1].value), f_args.tree, 1, 0, f_args.fuel)
    /\ f_pc' = "copy_subtree_done"
    /\ UNCHANGED <<searchVars, f_children, f_exclude, f_count, f_remaining, f_args>>

\* prune(): m_tmp_tree.clear(root value); m_tree.copy_subtree(m_tmp_tree,
\* its root, the root of m_tree, prune_min_count, ...)
CallCopySubtree ==
    /\ f_pc = "copy_subtree"
    /\ f_result' = copy_subtree(Tree_clear(f_args.tree[1].value), f_args.tree, 1, f_args.min_count, f_args.fuel)
    /\ f_pc' = "copy_subtree_done"
    /\ UNCHANGED <<searchVars, f_children, f_exclude, f_count, f_remaining, f_args>>

\* search(): m_tmp_tree.clear(tie value); m_tree.extract_subtree(m_tmp_tree,
\* node, ...)
CallExtractSubtree ==
    /\ f_pc = "extract_subtree"
    /\ f_result' = extract_subtree(Tree_clear(TieValue), f_args.tree, f_args.node, f_args.fuel)
    /\ f_pc' = "extract_subtree_done"
    /\ UNCHANGED <<searchVars, f_children, f_exclude, f_count, f_remaining, f_args>>

CopyNext == CallCopySubtree \/ CallExtractSubtree

CopySpec == CopyInit /\ [][CopyNext]_vars

\* The nodes of src below and including s that are reached through nodes
\* with a count of at least min_count
RECURSIVE Kept(_, _, _)
Kept(src, s, min_count) ==
    {s} \cup (IF src[s].count >= min_count
              THEN UNION {Kept(src, src[s].first + k - 1, min_count) : k \in 1..src[s].nch}
              ELSE {})

\* Node t of dst carries the data of node s of src, and has the children
\* of s in the same order with the same subtrees if s has a count of at
\* least min_count, and no children otherwise
RECURSIVE SameSubtree(_, _, _, _, _)
SameSubtree(src, s, dst, t, min_count) ==
    /\ dst[t].move = src[s].move
    /\ dst[t].count = src[s].count
    /\ dst[t].value = src[s].value
    /\ IF src[s].nch > 0 /\ src[s].count >= min_count
       THEN /\ dst[t].nch = src[s].nch
            /\ dst[t].first > t
            /\ dst[t].first + dst[t].nch - 1 <= Len(dst)
            /\ \A k \in 0..(src[s].nch - 1) : SameSubtree(src, src[s].first + k, dst, dst[t].first + k, min_count)
       ELSE dst[t].nch = 0

C23_WitnessExtract ==
    /\ f_pc = "extract_subtree_done"
    /\ ~f_result.aborted
    /\ f_args.node > 1
    /\ Len(f_result.tree) > 1

----------------------------------------------------------------------------
(* The search of one thread on a deterministic domain: select_child as the  *)
(* code computes it, children that start with the init value passed to      *)
(* gen_children, and an evaluation that is a function of the moves played.  *)

RatAdd(a, b) == Norm(<<a[1] * b[2] + b[1] * a[2], a[2] * b[2]>>)

RatMul(a, b) == Norm(<<a[1] * b[1], a[2] * b[2]>>)

\* The value select_child computes for a child: beta * rave_value +
\* (1 - beta) * value + bias
child_value(t, beta) ==
    RatAdd(RatAdd(RatMul(beta, t.rave_value), RatMul(RatAdd(<<1, 1>>, <<-beta[1], beta[2]>>), t.value)), t.bias)

\* The loop of select_child over children first .. k; best is the position
\* of best_child (Null: none yet)
RECURSIVE select_child_loop(_, _, _, _, _)
select_child_loop(terms, beta, k, best, best_value) ==
    IF k > Len(terms) THEN best
    ELSE LET value == child_value(terms[k], beta)
         IN  IF ValGT(value, best_value) THEN select_child_loop(terms, beta, k + 1, k, value)
             ELSE select_child_loop(terms, beta, k + 1, best, best_value)

\* Mutant: a later child with an equal value replaces the best child
RECURSIVE select_child_last_loop(_, _, _, _, _)
select_child_last_loop(terms, beta, k, best, best_value) ==
    IF k > Len(terms) THEN best
    ELSE LET value == child_value(terms[k], beta)
         IN  IF ~ValGT(best_value, value) THEN select_child_last_loop(terms, beta, k + 1, k, value)
             ELSE select_child_last_loop(terms, beta, k + 1, best, best_value)

select_child_last(terms, beta) == select_child_last_loop(terms, beta, 1, Null, NegFltMax)

\* Search::select_child.  terms: for every child in ChildIterator order
\* its value, its RAVE value and the bias m_bias_term.get returns for its
\* count; beta: the weight of the RAVE value.  The result is the position
\* of the selected child.
select_child(terms, beta) == select_child_loop(terms, beta, 1, Null, NegFltMax)

\* The weight of the RAVE value select_child computes: 0 if RAVE is
\* disabled, else rave_weight = sqrt(m_rave_equivalence / (3 * node_count
\* + m_rave_equivalence))
select_child_beta(rave, rave_weight) == IF rave THEN rave_weight ELSE <<0, 1>>

\* The terms of the children of node i when RAVE is disabled and the bias
\* term constant is 0
ValueTerms(tree, i) == [k \in 1..tree[i].nch |-> [value |-> tree[tree[i].first + k - 1].value, rave_value |-> <<0, 1>>, bias |-> <<0, 1>>]]

\* The descent of play_in_tree: select_child while the node has children
RECURSIVE Descent(_, _)
Descent(tree, path) ==
    LET i == path[Len(path)]
    IN  IF ~has_children(tree[i]) THEN path
        ELSE Descent(tree, Append(path, tree[i].first + select_child(ValueTerms(tree, i), select_child_beta(cfg.m_rave, <<1, 1>>)) - 1))

\* play_in_tree of thread w on a domain whose gen_children gives every
\* child the init value and the count 0 (the best child of an expansion is
\* then the first one)
DetPlayInTree(w) ==
    /\ pc = "running"
    /\ m_threads[w].pc = "tree"
    /\ LET path == Descent(m_tree, <<1>>)
           node == path[Len(path)]
           expand == m_tree[node].count >= cfg.m_expand_threshold \/ node = 1
           new_moves == gen_children(Len(path) - 1)
           full == expand /\ is_tree_full(m_tree, new_moves, cfg.m_max_nodes)
           linked == expand /\ ~full /\ Len(new_moves) > 0
           init_val == m_init_val[PlayerOfMove(Len(path) - 1)].value
       IN  /\ m_tree' = IF linked THEN link_children(m_tree, node, new_moves, init_val) ELSE m_tree
           /\ m_threads' = [m_threads EXCEPT ![w] = [@ EXCEPT !.is_out_of_mem = full,
                                                          !.is_terminal = expand /\ ~full /\ Len(new_moves) = 0,
                                                          !.chk = NoCheck,
                                                          !.nodes = IF linked THEN Append(path, Len(m_tree) + 1) ELSE path,
                                                          !.pc = IF full THEN "exited" ELSE "backup",
                                                          !.left_by = IF full THEN "out_of_mem" ELSE "none"]]
    /\ UNCHANGED <<now, abort, host, cfg, m_tmp_tree, m_last_reuse_param, m_reuse_count, m_max_count, m_min_simulations, m_max_time, m_nu_simulations, m_timer, prune_min_count, nu_threads, pc, ret, mv, nu_searches, obs, fnVars, m_root_val, m_init_val, thread_sync>>

\* The playout, the evaluation and the backup of the simulation of thread
\* w on a domain whose evaluation is, for every player, the entry of
\* P.eval_of for the first move of the simulation
DetBackup(w, P) ==
    /\ pc = "running"
    /\ m_threads[w].pc = "backup"
    /\ LET nodes == m_threads[w].nodes
           eval == [p \in 0..(host.nu_players - 1) |-> IF Len(nodes) > 1 THEN P.eval_of[m_tree[nodes[2]].move] ELSE TieValue]
       IN  /\ m_tree' = update_values(m_tree, nodes, eval)
           /\ m_root_val' = add_eval(m_root_val, eval)
           /\ m_init_val' = add_eval(m_init_val, eval)
    /\ m_threads' = [m_threads EXCEPT ![w].pc = "top"]
    /\ obs' = [obs EXCEPT !.completed = @ + 1]
    /\ UNCHANGED <<now, abort, host, cfg, m_tmp_tree, m_last_reuse_param, m_reuse_count, m_max_count, m_min_simulations, m_max_time, m_nu_simulations, m_timer, prune_min_count, nu_threads, pc, ret, mv, nu_searches, fnVars, thread_sync>>

DetSearchNext(P) ==
    \/ StartSearch(P)
    \/ LaunchRound
    \/ \E w \in Threads : LoopTop(w, P)
    \/ \E w \in Threads : DetPlayInTree(w)
    \/ \E w \in Threads : DetBackup(w, P)
    \/ RoundEnd(P)

\* Largest number of simulations started in a search on the deterministic
\* domain (above the count limits, so that it ends no search)
MaxDetSimulations == 8

\* Two searches by one thread in deterministic mode with a count limit and
\* without reuse of the tree; the domain evaluates a simulation that
\* starts with move 1, 2, 3 as 2/5, 1/10, 9/20
PDet == [players |-> {1}, game_lens |-> {1, 2}, branches |-> {2, 3}, threads |-> {1}, deterministic |-> {TRUE}, reuse_subtree |-> {FALSE}, reuse_tree |-> {FALSE}, prune_full_tree |-> {TRUE}, expand_thresholds |-> {0, 1}, prune_count_starts |-> {16}, max_nodes |-> {16}, max_now |-> 0, seq_lens |-> {1}, max_searches |-> 2, budgets |-> {[max_count |-> 3, max_time |-> 0], [max_count |-> 4, max_time |-> 0]}, min_simulations |-> {0}, always_search |-> {TRUE}, max_simulations |-> MaxDetSimulations, live |-> FALSE, evals |-> {<<1, 1>>}, rave_equivalences |-> {1000}, eval_of |-> <<<<2, 5>>, <<1, 10>>, <<9, 20>>>>]

DetInit == SearchInit(PDet) /\ FnIdle

DetNext == DetSearchNext(PDet)

DetSpec == DetInit /\ [][DetNext]_vars

\* C24: with one thread, a deterministic domain, deterministic mode, a
\* count limit and no reuse of the tree, the second of two consecutive
\* searches on the same position with the same limit returns the same
\* result, the same move and the same number of simulations as the first
C24_DeterministicSingleThread ==
    [][(/\ pc = "running" /\ pc' = "idle"
        /\ nu_searches = 2
        /\ obs.kind = "same"
        /\ cfg.m_nu_threads = 1 /\ cfg.m_deterministic /\ ~cfg.m_reuse_tree /\ ~cfg.m_reuse_subtree
        /\ m_max_count = obs.last_max_count)
       => (ret' = ret /\ mv' = mv /\ m_nu_simulations' = obs.last_nu_simulations)
      ]_vars

----------------------------------------------------------------------------
(* Search::update_last_good_reply on its own.  The reply table maps         *)
(* <<player, last move, second last move>> to a reply move (Null: none).    *)
(* moves is the move sequence of the simulation (get_move(i) is             *)
(* moves[i + 1]), eval the evaluation per player.                           *)

\* Largest number of moves of a simulation in the reply-table checks
MaxReplyMoves == 4

\* Number of different moves in the reply-table checks
MaxReplyMove == 2

\* Largest number of players in the reply-table checks
MaxReplyPlayers == 2

ReplyMoves == 1..MaxReplyMove

ReplyKeys(nu_players) == (0..(nu_players - 1)) \X ReplyMoves \X (ReplyMoves \cup {Null})

\* LastGoodReply::store and LastGoodReply::forget
LastGoodReply_store(table, player, last_mv, second_last_mv, reply) == [table EXCEPT ![<<player, last_mv, second_last_mv>>] = reply]

LastGoodReply_forget(table, player, last_mv, second_last_mv, reply) == [table EXCEPT ![<<player, last_mv, second_last_mv>>] = Null]

\* max_eval after the loop over the players 1 .. nu_players - 1
RECURSIVE max_eval_from(_, _, _)
max_eval_from(eval, i, max_eval) ==
    IF i \notin DOMAIN eval THEN max_eval
    ELSE max_eval_from(eval, i + 1, IF ValGT(eval[i], max_eval) THEN eval[i] ELSE max_eval)

\* Mutant: a player is a winner only if it is the first with the maximum
is_winner_first(eval, p) == eval[p] = max_eval_from(eval, 1, eval[0]) /\ \A q \in DOMAIN eval : q < p => eval[q] # eval[p]

is_winner(eval, p) == eval[p] = max_eval_from(eval, 1, eval[0])

\* One step of the loop over i = nu_moves - 1 down to 1
reply_step(table, moves, eval, i) ==
    LET reply == moves[i + 1]
        last_mv == moves[i].move
        second_last_mv == IF i >= 2 THEN moves[i - 1].move ELSE Null
    IN  IF is_winner(eval, reply.player)
        THEN LastGoodReply_store(table, reply.player, last_mv, second_last_mv, reply.move)
        ELSE LastGoodReply_forget(table, reply.player, last_mv, second_last_mv, reply.move)

\* Mutant: the loop runs forwards, from i = 1 to nu_moves - 1
RECURSIVE reply_loop_forwards(_, _, _, _)
reply_loop_forwards(table, moves, eval, i) ==
    IF i > Len(moves) - 1 THEN table
    ELSE reply_loop_forwards(reply_step(table, moves, eval, i), moves, eval, i + 1)

update_last_good_reply_forwards(table, moves, eval) ==
    IF Len(moves) > 1 THEN reply_loop_forwards(table, moves, eval, 1) ELSE table

RECURSIVE reply_loop(_, _, _, _)
reply_loop(table, moves, eval, i) ==
    IF i = 0 THEN table
    ELSE reply_loop(reply_step(table, moves, eval, i), moves, eval, i - 1)

\* Search::update_last_good_reply: the table afterwards
update_last_good_reply(table, moves, eval) ==
    IF Len(moves) > 1 THEN reply_loop(table, moves, eval, Len(moves) - 1) ELSE table

ReplyInit ==
    /\ SearchInit(PQuiet)
    /\ f_result = Null
    /\ f_children = <<>>
    /\ f_exclude = {}
    /\ f_count = 0
    /\ f_remaining = <<0, 1>>
    /\ f_pc = "update_last_good_reply"
    /\ \E np \in 1..MaxReplyPlayers :
        f_args \in {[table |-> [k \in ReplyKeys(np) |-> m], moves |-> q, eval |-> e] :
                        m \in ReplyMoves \cup {Null},
                        q \in UNION {[1..n -> [player : 0..(np - 1), move : ReplyMoves]] : n \in 0..MaxReplyMoves},
                        e \in [0..(np - 1) -> Values]}

CallUpdateLastGoodReply ==
    /\ f_pc = "update_last_good_reply"
    /\ f_result' = update_last_good_reply(f_args.table, f_args.moves, f_args.eval)
    /\ f_pc' = "update_last_good_reply_done"
    /\ UNCHANGED <<searchVars, f_children, f_exclude, f_count, f_remaining, f_args>>

ReplyNext == CallUpdateLastGoodReply

ReplySpec == ReplyInit /\ [][ReplyNext]_vars

\* The positions i (from 1) at which moves has a reply with the key k
Occurrences(moves, k) ==
    {i \in 1..(Len(moves) - 1) :
        /\ moves[i + 1].player = k[1]
        /\ moves[i].move = k[2]
        /\ k[3] = (IF i >= 2 THEN moves[i - 1].move ELSE Null)}

Earliest(S) == CHOOSE i \in S : \A j \in S : i <= j

\* The player has the largest evaluation (a tie makes all of them winners)
TrueWinner(eval, p) == \A q \in DOMAIN eval : ~ValGT(eval[q], eval[p])

\* C25: after update_last_good_reply a player is treated as a winner iff
\* its evaluation is the maximum; for a winner the table holds, at every
\* key at which it replied in the simulation, its reply of the earliest
\* occurrence of the key; for a non-winner the entry of every such key is
\* empty; the other entries are unchanged
C25_ReplyTable ==
    f_pc = "update_last_good_reply_done" =>
        \A k \in DOMAIN f_args.table :
            LET occ == Occurrences(f_args.moves, k)
            IN  IF occ = {} THEN f_result[k] = f_args.table[k]
                ELSE IF TrueWinner(f_args.eval, k[1]) THEN f_result[k] = f_args.moves[Earliest(occ) + 1].move
                ELSE f_result[k] = Null

\* Two players tie for the maximum, one of them replied twice to the same
\* key with different moves, over a table that held another entry
C25_Witness ==
    /\ f_pc = "update_last_good_reply_done"
    /\ DOMAIN f_args.eval = {0, 1}
    /\ f_args.eval[0] = f_args.eval[1]
    /\ \E k \in DOMAIN f_args.table :
        LET occ == Occurrences(f_args.moves, k)
        IN  /\ Cardinality(occ) = 2
            /\ \E i \in occ, j \in occ : f_args.moves[i + 1].move # f_args.moves[j + 1].move
            /\ f_args.table[k] # Null
            /\ f_result[k] # f_args.table[k]

\* A non-winner's key that held an entry is cleared
C25_WitnessLoser ==
    /\ f_pc = "update_last_good_reply_done"
    /\ \E k \in DOMAIN f_args.table :
        /\ Occurrences(f_args.moves, k) # {}
        /\ ~TrueWinner(f_args.eval, k[1])
        /\ f_args.table[k] # Null
        /\ f_result[k] = Null

----------------------------------------------------------------------------
(* The start / finish handshake of Search::Thread.  A mutex is the name of  *)
(* its owner ("none", "caller", "thread"); wait on a condition releases     *)
(* the mutex and blocks in one step, and the woken thread must get the      *)
(* mutex again; notify_all wakes the thread that is blocked in wait, if     *)
(* any; there are no spurious wake-ups.                                     *)

\* Number of rounds of the while loop of search() in the handshake checks
MaxRounds == 2

nonSyncVars == <<now, abort, host, cfg, m_tree, m_tmp_tree, m_last_reuse_param, m_reuse_count, m_max_count, m_min_simulations, m_max_time, m_nu_simulations, m_timer, prune_min_count, nu_threads, m_threads, pc, ret, mv, nu_searches, obs, m_root_val, m_init_val, fnVars>>

\* Mutant: the lock is taken whoever holds the mutex
lock_available_always(owner) == TRUE

\* mutex::scoped_lock lock(mutex) can go on
lock_available(owner) == owner = "none"

\* The caller's loops over the threads: on to the next thread at position
\* again, or past the last one to position then
SyncNextThread(c, again, then) == IF c.i < MaxSyncThreads THEN [c EXCEPT !.pc = again, !.i = @ + 1] ELSE [c EXCEPT !.pc = then, !.i = 1]

\* create_threads: new Thread (whose constructor locks
\* m_search_finished_mutex in the caller) and run() up to the barrier
CreateThread ==
    /\ thread_sync.caller.pc = "create"
    /\ LET i == thread_sync.caller.i
       IN  thread_sync' = [thread_sync EXCEPT !.caller.pc = "run", !.t[i] = [@ EXCEPT !.pc = "lock", !.m_search_finished_mutex = "caller", !.m_thread_ready = @ + 1]]
    /\ UNCHANGED nonSyncVars

\* run(): m_thread_ready.wait() returns when both threads have arrived
RunReturns ==
    /\ thread_sync.caller.pc = "run"
    /\ thread_sync.t[thread_sync.caller.i].m_thread_ready = 2
    /\ thread_sync' = [thread_sync EXCEPT !.caller = SyncNextThread(@, "create", "idle")]
    /\ UNCHANGED nonSyncVars

\* Top of the while loop of search()
BeginRound ==
    /\ thread_sync.caller.pc = "idle"
    /\ thread_sync.caller.rounds < MaxRounds
    /\ thread_sync' = [thread_sync EXCEPT !.caller.pc = "start_lock"]
    /\ UNCHANGED nonSyncVars

\* start_search_loop: the lock of m_start_search_mutex
StartLock ==
    /\ thread_sync.caller.pc = "start_lock"
    /\ LET i == thread_sync.caller.i
       IN  /\ lock_available(thread_sync.t[i].m_start_search_mutex)
           /\ thread_sync' = [thread_sync EXCEPT !.caller.pc = "start_notify", !.t[i].m_start_search_mutex = "caller"]
    /\ UNCHANGED nonSyncVars

\* start_search_loop: m_start_search.notify_all() and the end of the scope
\* of the lock
StartNotify ==
    /\ thread_sync.caller.pc = "start_notify"
    /\ LET i == thread_sync.caller.i
           t == thread_sync.t[i]
       IN  thread_sync' = [thread_sync EXCEPT !.caller = SyncNextThread(@, "start_lock", "search_loop"),
                                              !.t[i] = [@ EXCEPT !.m_start_search_mutex = IF t.m_start_search_mutex = "caller" THEN "none" ELSE @,
                                                                 !.m_start_search = FALSE,
                                                                 !.pc = IF t.m_start_search THEN "woken" ELSE @,
                                                                 !.starts = @ + 1]]
    /\ UNCHANGED nonSyncVars

\* search_loop of thread 0 in the caller
CallerSearchLoop ==
    /\ thread_sync.caller.pc = "search_loop"
    /\ thread_sync' = [thread_sync EXCEPT !.caller.pc = "wait"]
    /\ UNCHANGED nonSyncVars

\* wait_search_loop_finished: m_search_finished.wait releases
\* m_search_finished_mutex and blocks
WaitFinished ==
    /\ thread_sync.caller.pc = "wait"
    /\ LET i == thread_sync.caller.i
       IN  thread_sync' = [thread_sync EXCEPT !.caller.pc = "waiting", !.t[i].m_search_finished_mutex = "none", !.t[i].m_search_finished = TRUE]
    /\ UNCHANGED nonSyncVars

\* wait_search_loop_finished returns: the caller was woken and gets
\* m_search_finished_mutex again
WaitReturns ==
    /\ thread_sync.caller.pc = "woken"
    /\ LET i == thread_sync.caller.i
       IN  /\ lock_available(thread_sync.t[i].m_search_finished_mutex)
           /\ thread_sync' = [thread_sync EXCEPT !.caller = [SyncNextThread(@, "wait", "idle") EXCEPT !.rounds = IF thread_sync.caller.i < MaxSyncThreads THEN @ ELSE @ + 1],
                                                  !.t[i].m_search_finished_mutex = "caller",
                                                  !.t[i].returned = @ + 1]
    /\ UNCHANGED nonSyncVars

\* thread_main: the lock of m_start_search_mutex, then the barrier
ThreadLock(i) ==
    /\ thread_sync.t[i].pc = "lock"
    /\ lock_available(thread_sync.t[i].m_start_search_mutex)
    /\ thread_sync' = [thread_sync EXCEPT !.t[i] = [@ EXCEPT !.pc = "ready", !.m_start_search_mutex = "thread", !.m_thread_ready = @ + 1]]
    /\ UNCHANGED nonSyncVars

\* thread_main: m_thread_ready.wait() returns
ThreadReady(i) ==
    /\ thread_sync.t[i].pc = "ready"
    /\ thread_sync.t[i].m_thread_ready = 2
    /\ thread_sync' = [thread_sync EXCEPT !.t[i].pc = "wait"]
    /\ UNCHANGED nonSyncVars

\* thread_main: m_start_search.wait(lock) releases the mutex and blocks
ThreadWait(i) ==
    /\ thread_sync.t[i].pc = "wait"
    /\ thread_sync' = [thread_sync EXCEPT !.t[i] = [@ EXCEPT !.pc = "waiting", !.m_start_search_mutex = "none", !.m_start_search = TRUE]]
    /\ UNCHANGED nonSyncVars

\* thread_main: the woken thread gets the mutex again, m_quit is false and
\* m_search_loop_func is called
ThreadWoken(i) ==
    /\ thread_sync.t[i].pc = "woken"
    /\ lock_available(thread_sync.t[i].m_start_search_mutex)
    /\ ~thread_sync.t[i].m_quit
    /\ thread_sync' = [thread_sync EXCEPT !.t[i] = [@ EXCEPT !.pc = "search_loop", !.m_start_search_mutex = "thread", !.runs = @ + 1]]
    /\ UNCHANGED nonSyncVars

\* m_search_loop_func returns
ThreadSearchLoop(i) ==
    /\ thread_sync.t[i].pc = "search_loop"
    /\ thread_sync' = [thread_sync EXCEPT !.t[i] = [@ EXCEPT !.pc = "finished_lock", !.done = @ + 1]]
    /\ UNCHANGED nonSyncVars

\* thread_main: the lock of m_search_finished_mutex
ThreadFinishedLock(i) ==
    /\ thread_sync.t[i].pc = "finished_lock"
    /\ lock_available(thread_sync.t[i].m_search_finished_mutex)
    /\ thread_sync' = [thread_sync EXCEPT !.t[i] = [@ EXCEPT !.pc = "finished_notify", !.m_search_finished_mutex = "thread"]]
    /\ UNCHANGED nonSyncVars

\* thread_main: m_search_finished.notify_all() and the end of the scope of
\* the lock; the thread is at the top of its loop again
ThreadFinishedNotify(i) ==
    /\ thread_sync.t[i].pc = "finished_notify"
    /\ LET t == thread_sync.t[i]
           wake == t.m_search_finished /\ thread_sync.caller.i = i /\ thread_sync.caller.pc = "waiting"
       IN  thread_sync' = [thread_sync EXCEPT !.caller.pc = IF wake THEN "woken" ELSE @,
                                              !.t[i] = [@ EXCEPT !.pc = "wait", !.m_search_finished_mutex = "none", !.m_search_finished = FALSE]]
    /\ UNCHANGED nonSyncVars

SyncNext ==
    \/ CreateThread
    \/ RunReturns
    \/ BeginRound
    \/ StartLock
    \/ StartNotify
    \/ CallerSearchLoop
    \/ WaitFinished
    \/ WaitReturns
    \/ \E i \in 1..MaxSyncThreads : ThreadLock(i)
    \/ \E i \in 1..MaxSyncThreads : ThreadReady(i)
    \/ \E i \in 1..MaxSyncThreads : ThreadWait(i)
    \/ \E i \in 1..MaxSyncThreads : ThreadWoken(i)
    \/ \E i \in 1..MaxSyncThreads : ThreadSearchLoop(i)
    \/ \E i \in 1..MaxSyncThreads : ThreadFinishedLock(i)
    \/ \E i \in 1..MaxSyncThreads : ThreadFinishedNotify(i)

SyncSpecInit == SearchInit(PQuiet) /\ FnIdle

SyncSpec == SyncSpecInit /\ [][SyncNext]_vars

\* C26: for every thread, the number of executions of the search loop
\* never exceeds the number of start_search_loop calls and is behind it
\* only while the woken thread has not yet got its mutex again (no start
\* is lost, none is served twice); wait_search_loop_finished has returned
\* only as often as the search loop has ended, and between two rounds
\* every start has been followed by exactly one completed execution; an
\* execution that has ended and not been waited for has its thread
\* blocked before the notification or the caller woken (no finish is
\* lost); and the handshake never blocks for good
C26_StartFinishHandshake ==
    /\ \A i \in 1..MaxSyncThreads :
        LET t == thread_sync.t[i]
        IN  /\ t.runs <= t.starts
            /\ t.starts <= t.runs + 1
            /\ (t.starts > t.runs => t.pc = "woken")
            /\ t.done <= t.runs
            /\ t.returned <= t.done
            /\ (thread_sync.caller.pc = "idle" => (t.runs = t.starts /\ t.done = t.starts /\ t.returned = t.starts))
            /\ ((t.done > t.returned /\ t.pc \notin {"finished_lock", "finished_notify"}) => (thread_sync.caller.pc = "woken" /\ thread_sync.caller.i = i))
    /\ (thread_sync.caller.rounds < MaxRounds => ENABLED SyncNext)

\* The caller has called start_search_loop while the thread has not
\* reached its wait and still holds m_start_search_mutex
C26_Witness ==
    \E i \in 1..MaxSyncThreads :
        /\ thread_sync.caller.pc = "start_lock"
        /\ thread_sync.caller.i = i
        /\ thread_sync.t[i].pc \in {"ready", "wait"}
        /\ thread_sync.t[i].m_start_search_mutex = "thread"

\* Every round is complete: every thread has run its search loop once per
\* start and every wait has returned
C26_WitnessRounds ==
    /\ thread_sync.caller.pc = "idle"
    /\ thread_sync.caller.rounds = MaxRounds
    /\ \A i \in 1..MaxSyncThreads : thread_sync.t[i].returned = MaxRounds

----------------------------------------------------------------------------
\* C27: in the in-tree phase a node other than the root gets children
\* only if its count exceeds the expansion threshold (a leaf whose count
\* is below or equal to the threshold stays without children)
C27_ExpandAboveThreshold ==
    [][(pc = "running" /\ pc' = "running") =>
        \A i \in 2..Len(m_tree) :
            (m_tree[i].nch = 0 /\ m_tree'[i].nch > 0) => m_tree[i].count > cfg.m_expand_threshold
      ]_vars

\* The statistics of the nodes and the root-value accumulators
StatVars == <<m_tree, m_root_val, m_init_val>>

\* Every node of the path has one evaluation more
PathBackedUp(nodes) == \A k \in 1..Len(nodes) : m_tree'[nodes[k]].count = m_tree[nodes[k]].count + 1

\* C28: a thread leaves search_loop only at the abort check at the top of
\* an iteration or right after a failed expansion; both steps change no
\* node statistic and no root-value accumulator, and the failed expansion
\* sets is_out_of_mem; a simulation whose expansion did not fail goes on
\* to its backup, and a thread in the backup comes back to the top of the
\* loop, with the evaluation added to the accumulators, before it can
\* leave
C28_AllOrNothing ==
    [][(pc = "running" /\ pc' = "running") =>
        \A w \in Threads :
            LET a == m_threads[w]
                b == m_threads'[w]
            IN  /\ (a.pc # "exited" /\ b.pc = "exited") =>
                      /\ UNCHANGED StatVars
                      /\ \/ a.pc = "top" /\ b.left_by \in {"check_abort", "expensive"}
                         \/ a.pc = "tree" /\ b.is_out_of_mem /\ b.left_by = "out_of_mem"
                /\ (a.pc = "tree" /\ b.pc # "tree") => (IF b.is_out_of_mem THEN b.pc = "exited" ELSE b.pc = "backup")
                /\ (a.pc = "backup" /\ b.pc # "backup") =>
                      /\ b.pc = "top"
                      /\ PathBackedUp(a.nodes)
                      /\ \A p \in DOMAIN m_root_val : m_root_val'[p].count = m_root_val[p].count + 1
      ]_vars

\* A thread has left search_loop after a failed expansion while the tree
\* holds the statistics of a completed simulation
C28_Witness ==
    /\ pc = "running"
    /\ \E w \in Threads : m_threads[w].pc = "exited" /\ m_threads[w].left_by = "out_of_mem" /\ m_threads[w].is_out_of_mem
    /\ m_tree[1].count > 0

----------------------------------------------------------------------------
(* The backup of single simulations with evaluations that differ between    *)
(* the players.                                                             *)

\* Largest number of simulations started in a search of the backup checks
MaxBackupSimulations == 5

\* Count-limited searches by one thread on a cleared tree that the arena
\* can always hold, with 2 players that are evaluated 0 or 1 each
PBackup == [players |-> {1, 2}, game_lens |-> {1, 2}, branches |-> {2}, threads |-> {1}, deterministic |-> {TRUE}, reuse_subtree |-> {TRUE}, reuse_tree |-> {FALSE}, prune_full_tree |-> {TRUE}, expand_thresholds |-> {0}, prune_count_starts |-> {16}, max_nodes |-> {7}, max_now |-> 0, seq_lens |-> {1}, max_searches |-> 1, budgets |-> {[max_count |-> 4, max_time |-> 0]}, min_simulations |-> {0}, always_search |-> {TRUE}, max_simulations |-> MaxBackupSimulations, live |-> FALSE, evals |-> {<<0, 1>>, <<1, 1>>}, rave_equivalences |-> {1000}]

BackupInit == SearchInit(PBackup) /\ FnIdle

BackupNext == SearchNext(PBackup)

BackupSpec == BackupInit /\ [][BackupNext]_vars

\* The statistics new are the statistics old with the evaluation x added
\* once: the count is one higher and the mean has moved by (x - mean) /
\* count
OneAdded(old, new, x) ==
    /\ new.count = old.count + 1
    /\ new.value[1] * x[2] * old.value[2] * new.count = (old.value[1] * old.count * x[2] + x[1] * old.value[2]) * new.value[2]

\* The player whose evaluation node number k (from 1) of a path gets: the
\* player to move at the root for the root, else the player of the move
\* into the node
BackupPlayer(k) == IF k = 1 THEN host.to_play ELSE (host.to_play + (k - 2)) % host.nu_players

\* C29: the backup of a simulation adds exactly one evaluation to every
\* node of the visited path (to the root that of the player to move at
\* the root, to the i-th node that of the player of the move into it) and
\* changes no other node; in a search by one thread on a cleared tree
\* without pruning the root count is the number of completed simulations
C29_BackupPath ==
    [][(pc = "running" /\ pc' = "running") =>
        /\ \A w \in Threads :
            (m_threads[w].pc = "backup" /\ m_threads'[w].pc = "top") =>
                LET nodes == m_threads[w].nodes
                IN  \E eval \in [0..(host.nu_players - 1) -> {<<0, 1>>, <<1, 1>>}] :
                        /\ \A p \in DOMAIN m_root_val : OneAdded(m_root_val[p], m_root_val'[p], eval[p])
                        /\ \A k \in 1..Len(nodes) : OneAdded(m_tree[nodes[k]], m_tree'[nodes[k]], eval[BackupPlayer(k)])
                        /\ \A i \in 1..Len(m_tree) : (\A k \in 1..Len(nodes) : nodes[k] # i) => m_tree'[i] = m_tree[i]
        /\ (cfg.m_nu_threads = 1 /\ obs.cleared /\ obs.prune = "none") => m_tree'[1].count = obs'.completed
      ]_vars

\* A backup along a path of three nodes has been made in a search whose
\* two players were evaluated differently
C29_Witness ==
    /\ pc = "running"
    /\ host.nu_players = 2
    /\ m_threads[0].pc = "top"
    /\ Len(m_threads[0].nodes) = 3
    /\ obs.completed >= 2
    /\ m_tree[1].count = obs.completed
    /\ m_root_val[0].value # m_root_val[1].value


----------------------------------------------------------------------------
(* Search::select_child on its own *)

\* The stand-ins for the values of sqrt(m_rave_equivalence / (3 *
\* node_count + m_rave_equivalence)), which lie in (0, 1]
RaveWeights == {<<1, 2>>, <<1, 1>>}

\* The bias values m_bias_term.get returns for the children
BiasValues == {<<0, 1>>, <<1, 2>>}

SelectInit ==
    /\ SearchInit(PQuiet)
    /\ f_result = Null
    /\ f_children = <<>>
    /\ f_exclude = {}
    /\ f_count = 0
    /\ f_remaining = <<0, 1>>
    /\ f_pc = "select_child"
    /\ f_args \in {[terms |-> ts, m_rave |-> r, rave_weight |-> b] :
                    ts \in UNION {[1..n -> [value : Values, rave_value : {<<0, 1>>, <<1, 1>>}, bias : BiasValues]] : n \in 1..MaxChildren},
                    r \in BOOLEAN, b \in RaveWeights}
    /\ (~f_args.m_rave => f_args.rave_weight = <<1, 1>>)

CallSelectChild ==
    /\ f_pc = "select_child"
    /\ f_result' = select_child(f_args.terms, select_child_beta(f_args.m_rave, f_args.rave_weight))
    /\ f_pc' = "select_child_done"
    /\ UNCHANGED <<searchVars, f_children, f_exclude, f_count, f_remaining, f_args>>

SelectNext == CallSelectChild

SelectSpec == SelectInit /\ [][SelectNext]_vars

\* beta * rave_value + (1 - beta) * value + bias as num / den with the
\* common denominator den = beta[2] * 2 (values, RAVE values and bias
\* values are multiples of 1/2): the numerator
ScoreTimes(t, beta) ==
    LET half(q) == (2 * q[1]) \div q[2]
    IN  beta[1] * half(t.rave_value) + (beta[2] - beta[1]) * half(t.value) + beta[2] * half(t.bias)

\* C30: select_child returns a child (never none) whose value beta *
\* rave_value + (1 - beta) * value + bias is the maximum over the
\* children, beta being 0 when RAVE is disabled, and every child before it
\* in allocation order has a smaller value
C30_SelectChild ==
    f_pc = "select_child_done" =>
        LET beta == IF f_args.m_rave THEN f_args.rave_weight ELSE <<0, 1>>
            ts == f_args.terms
        IN  /\ f_result \in 1..Len(ts)
            /\ \A k \in 1..Len(ts) : ScoreTimes(ts[k], beta) <= ScoreTimes(ts[f_result], beta)
            /\ \A k \in 1..(f_result - 1) : ScoreTimes(ts[k], beta) < ScoreTimes(ts[f_result], beta)

\* RAVE is disabled, two children tie for the maximum of value + bias, the
\* first of them is returned, and a child with a higher RAVE value is not
C30_Witness ==
    /\ f_pc = "select_child_done"
    /\ ~f_args.m_rave
    /\ \E k \in 1..Len(f_args.terms) :
        /\ k > f_result
        /\ ScoreTimes(f_args.terms[k], <<0, 1>>) = ScoreTimes(f_args.terms[f_result], <<0, 1>>)
        /\ f_args.terms[k].rave_value = <<1, 1>>
        /\ f_args.terms[f_result].rave_value = <<0, 1>>

\* RAVE is enabled and the child returned has neither the largest value
\* nor the first position
C30_WitnessRave ==
    /\ f_pc = "select_child_done"
    /\ f_args.m_rave
    /\ f_result > 1
    /\ \E k \in 1..Len(f_args.terms) : ValGT(f_args.terms[k].value, f_args.terms[f_result].value)


----------------------------------------------------------------------------
(* Search::update_rave_values step by step.  moves is the move sequence of *)
(* the simulation (get_move(i) is moves[i + 1]), nu_nodes the number of    *)
(* nodes of the path in the tree (nodes[i] is the node before move i),     *)
(* first_play the scratch array of the thread, with UIntMax for "never     *)
(* played".  The updates made are collected as records.                    *)

\* Largest number of moves of a simulation in the RAVE checks
MaxRaveMoves == 3

\* Number of different moves in the RAVE checks
MaxRaveMove == 2

\* Largest number of players in the RAVE checks
MaxRavePlayers == 3

\* Number of simulations of a thread in the RAVE checks
MaxRaveSimulations == 2

RaveMoves == 1..MaxRaveMove

\* create_threads: thread_state.first_play[i].fill(max)
first_play_fill(nu_players) == [p \in 0..(nu_players - 1) |-> [m \in RaveMoves |-> UIntMax]]

\* if (! state.skip_rave(mv.move)) first_play[mv.player][mv.move] = i
first_play_record(first_play, player_move, i, skip) ==
    IF player_move.move \in skip THEN first_play
    ELSE [first_play EXCEPT ![player_move.player][player_move.move] = i]

\* Mutant: the reset loop starts at the move 1
RECURSIVE first_play_reset_from_1(_, _, _)
first_play_reset_from_1(first_play, moves, i) ==
    IF i >= Len(moves) THEN first_play
    ELSE first_play_reset_from_1(
            IF i = 0 THEN first_play ELSE [first_play EXCEPT ![moves[i + 1].player][moves[i + 1].move] = UIntMax],
            moves, i + 1)

\* The loop "Reset first_play" over i = 0 .. nu_moves - 1
RECURSIVE first_play_reset(_, _, _)
first_play_reset(first_play, moves, i) ==
    IF i >= Len(moves) THEN first_play
    ELSE first_play_reset([first_play EXCEPT ![moves[i + 1].player][moves[i + 1].move] = UIntMax], moves, i + 1)

\* The loop over the players in the per-node update.  Its variable is
\* named i as the node index is and hides it: first_other >= i compares
\* with the index of the other player
other_played_same(first_play, m, player, first, i, nu_players) ==
    \E j \in 0..(nu_players - 1) :
        /\ j # player
        /\ first_play[j][m] >= j
        /\ first_play[j][m] <= first

\* weight_factor = 1 / Float(len - i); weight = 2 - Float(first - i) *
\* weight_factor, or 1
rave_update_weight(first, i, len, weight_rave_updates) ==
    IF weight_rave_updates
    THEN RatAdd(<<2, 1>>, RatMul(<<-(first - i), 1>>, <<1, len - i>>))
    ELSE <<1, 1>>

\* update_rave_values(thread_state, eval, i, player): the calls of
\* add_rave_value it makes, one record per child updated
update_rave_values_node(first_play, moves, child_moves, i, player, nu_players, P) ==
    {[node |-> i, player |-> player, move |-> m, weight |-> rave_update_weight(first_play[player][m], i, Len(moves), P.weight_rave_updates)] :
        m \in {c \in child_moves :
                /\ first_play[player][c] # UIntMax
                /\ ~(P.rave_check_same /\ other_played_same(first_play, c, player, first_play[player][c], i, nu_players))}}

\* The moves of the children of nodes[i]: every node of the path before
\* the last has children; the last has them if it was expanded
RaveChildMoves(args, i) ==
    IF i < args.nu_nodes - 1 \/ args.last_has_children THEN RaveMoves ELSE {}

\* The game and the parameters of the search: they stay as they are from
\* one simulation to the next
RaveGames ==
    {[nu_players |-> np, skip |-> s, rave_check_same |-> c, weight_rave_updates |-> w, moves |-> <<>>, nu_nodes |-> 1, last_has_children |-> FALSE] :
        np \in 1..MaxRavePlayers, s \in {{}, {1}}, c \in BOOLEAN, w \in BOOLEAN}

\* The move sequences of a simulation
RaveSimulations(nu_players) == UNION {[1..k -> [player : 0..(nu_players - 1), move : RaveMoves]] : k \in 0..MaxRaveMoves}

RaveInit ==
    /\ SearchInit(PQuiet)
    /\ f_children = <<>>
    /\ f_exclude = {}
    /\ f_count = 0
    /\ f_remaining = <<0, 1>>
    /\ f_pc = "rave_idle"
    /\ f_args \in RaveGames
    /\ f_result = [first_play |-> first_play_fill(f_args.nu_players), i |-> 0, at |-> 0, updates |-> {}, asserted |-> TRUE]

\* search_loop has played a simulation and calls update_rave_values
RaveSimulation ==
    /\ f_pc = "rave_idle"
    /\ f_count < MaxRaveSimulations
    /\ \E q \in RaveSimulations(f_args.nu_players), l \in BOOLEAN :
        \E n \in 1..(Len(q) + 1) :
            f_args' = [f_args EXCEPT !.moves = q, !.nu_nodes = n, !.last_has_children = l]
    /\ f_pc' = "update_rave_values"
    /\ UNCHANGED <<searchVars, f_children, f_exclude, f_count, f_remaining, f_result>>

\* nu_moves == 0: return; otherwise i = nu_moves - 1
RaveBegin ==
    /\ f_pc = "update_rave_values"
    /\ IF Len(f_args.moves) = 0
       THEN /\ f_pc' = "update_rave_values_done"
            /\ f_result' = [f_result EXCEPT !.updates = {}, !.asserted = TRUE]
       ELSE /\ f_pc' = (IF Len(f_args.moves) - 1 >= f_args.nu_nodes THEN "rave_tail" ELSE "rave_walk")
            /\ f_result' = [f_result EXCEPT !.i = Len(f_args.moves) - 1, !.at = Len(f_args.moves), !.updates = {}, !.asserted = TRUE]
    /\ UNCHANGED <<searchVars, f_children, f_exclude, f_count, f_remaining, f_args>>

\* One pass of for ( ; i >= nu_nodes; --i)
RaveTail ==
    /\ f_pc = "rave_tail"
    /\ f_result' = [f_result EXCEPT
                        !.first_play = first_play_record(@, f_args.moves[f_result.i + 1], f_result.i, f_args.skip),
                        !.at = f_result.i,
                        !.i = @ - 1]
    /\ f_pc' = (IF f_result.i - 1 >= f_args.nu_nodes THEN "rave_tail" ELSE "rave_walk")
    /\ UNCHANGED <<searchVars, f_children, f_exclude, f_count, f_remaining, f_args>>

\* One pass of while (true): record the move, update the children of
\* nodes[i], leave the loop at i == 0
RaveWalk ==
    /\ f_pc = "rave_walk"
    /\ LET i == f_result.i
           mv_i == f_args.moves[i + 1]
           fp == first_play_record(f_result.first_play, mv_i, i, f_args.skip)
       IN  /\ f_result' = [f_result EXCEPT
                            !.first_play = fp,
                            !.at = i,
                            !.i = IF i = 0 THEN 0 ELSE i - 1,
                            !.updates = @ \cup update_rave_values_node(fp, f_args.moves, RaveChildMoves(f_args, i), i, mv_i.player, f_args.nu_players, f_args),
                            !.asserted = @ /\ \A m \in RaveChildMoves(f_args, i) : fp[mv_i.player][m] >= i]
           /\ f_pc' = (IF i = 0 THEN "rave_reset" ELSE "rave_walk")
    /\ UNCHANGED <<searchVars, f_children, f_exclude, f_count, f_remaining, f_args>>

\* The loop "Reset first_play" and the return
RaveReset ==
    /\ f_pc = "rave_reset"
    /\ f_result' = [f_result EXCEPT !.first_play = first_play_reset(@, f_args.moves, 0)]
    /\ f_pc' = "update_rave_values_done"
    /\ UNCHANGED <<searchVars, f_children, f_exclude, f_count, f_remaining, f_args>>

\* Back in search_loop: the scratch array stays as the call left it
RaveReturn ==
    /\ f_pc = "update_rave_values_done"
    /\ f_args' = [f_args EXCEPT !.moves = <<>>, !.nu_nodes = 1, !.last_has_children = FALSE]
    /\ f_pc' = "rave_idle"
    /\ f_result' = [f_result EXCEPT !.i = 0, !.at = 0, !.updates = {}, !.asserted = TRUE]
    /\ f_count' = f_count + 1
    /\ UNCHANGED <<searchVars, f_children, f_exclude, f_remaining>>

RaveNext == RaveSimulation \/ RaveBegin \/ RaveTail \/ RaveWalk \/ RaveReset \/ RaveReturn

RaveSpec == RaveInit /\ [][RaveNext]_vars

\* The first ply from i on at which player p plays the move m (UIntMax:
\* none), the moves skip_rave excludes left out
FirstPlayFrom(args, p, m, i) ==
    LET S == {k \in i..(Len(args.moves) - 1) : args.moves[k + 1].player = p /\ args.moves[k + 1].move = m /\ m \notin args.skip}
    IN  IF S = {} THEN UIntMax ELSE CHOOSE k \in S : \A l \in S : k <= l

\* The update of the child move m at the node index i was made
RaveUpdated(i, m) == \E u \in f_result.updates : u.node = i /\ u.move = m

\* The node indices the walk has passed
RaveVisited == IF f_pc \in {"rave_reset", "update_rave_values_done"} /\ Len(f_args.moves) > 0 THEN 0..(f_args.nu_nodes - 1) ELSE IF f_pc = "rave_walk" THEN (f_result.i + 1)..(f_args.nu_nodes - 1) ELSE {}

\* C31: with rave_check_same the update of a child move m for the player
\* p of the node index i, whose first play of m from i on is the ply
\* first, is skipped exactly when another player's first play of m from i
\* on lies in i .. first
C31_CheckSameSkip ==
    f_args.rave_check_same =>
        \A i \in RaveVisited : \A m \in RaveChildMoves(f_args, i) :
            LET p == f_args.moves[i + 1].player
                first == FirstPlayFrom(f_args, p, m, i)
            IN  first # UIntMax =>
                    (~RaveUpdated(i, m) <=>
                        \E q \in 0..(f_args.nu_players - 1) :
                            /\ q # p
                            /\ FirstPlayFrom(f_args, q, m, i) >= i
                            /\ FirstPlayFrom(f_args, q, m, i) <= first)

\* With two players the comparison with the player index decides as the
\* comparison with the node index does, and an update is skipped
C31_TwoPlayers ==
    (f_args.nu_players <= 2) => C31_CheckSameSkip

\* C32: the weight of an update at the node index i for a move first
\* played at the ply first in a simulation of len moves is 2 - (first -
\* i) / len in weighted mode and 1 in uniform mode, and lies in (1, 2]
C32_Weight ==
    \A u \in f_result.updates :
        LET first == FirstPlayFrom(f_args, u.player, u.move, u.node)
            len == Len(f_args.moves)
        IN  /\ u.weight = (IF f_args.weight_rave_updates THEN Norm(<<2 * len - (first - u.node), len>>) ELSE <<1, 1>>)
            /\ ValGT(u.weight, <<1, 1>>) \/ (~f_args.weight_rave_updates /\ u.weight = <<1, 1>>)
            /\ ~ValGT(u.weight, <<2, 1>>)

\* The weight the code computes: the distance is divided by the number
\* of moves from the node on, len - i; it lies in (1, 2] as well
C32_WeightRemainingLength ==
    \A u \in f_result.updates :
        LET first == FirstPlayFrom(f_args, u.player, u.move, u.node)
            len == Len(f_args.moves)
        IN  /\ u.weight = (IF f_args.weight_rave_updates THEN Norm(<<2 * (len - u.node) - (first - u.node), len - u.node>>) ELSE <<1, 1>>)
            /\ ValGT(u.weight, <<1, 1>>) \/ (~f_args.weight_rave_updates /\ u.weight = <<1, 1>>)
            /\ ~ValGT(u.weight, <<2, 1>>)

\* C33: before and after every call of update_rave_values every entry of
\* first_play is "never played"; during the backward walk every recorded
\* entry is at least the index the walk is at, and the assertion first >=
\* i of the per-node update holds
C33_FirstPlayClean ==
    /\ f_pc \in {"rave_idle", "update_rave_values", "update_rave_values_done"} =>
        \A p \in DOMAIN f_result.first_play : \A m \in RaveMoves : f_result.first_play[p][m] = UIntMax
    /\ f_pc \in {"rave_tail", "rave_walk", "rave_reset"} =>
        \A p \in DOMAIN f_result.first_play : \A m \in RaveMoves : f_result.first_play[p][m] >= f_result.at
    /\ f_result.asserted

\* A call has returned whose simulation held a move skip_rave excludes
\* and a move played twice, after an earlier call of the same thread
C33_Witness ==
    /\ f_pc = "update_rave_values_done"
    /\ f_count >= 1
    /\ f_result.updates # {}
    /\ \E k \in 1..Len(f_args.moves) : f_args.moves[k].move \in f_args.skip
    /\ \E k \in 1..Len(f_args.moves), l \in 1..Len(f_args.moves) : k < l /\ f_args.moves[k] = f_args.moves[l] /\ f_args.moves[k].move \notin f_args.skip

\* A call with no moves has returned
C33_WitnessNoMoves ==
    /\ f_pc = "update_rave_values_done"
    /\ f_count >= 1
    /\ Len(f_args.moves) = 0

----------------------------------------------------------------------------
(* Short and long searches of a search object with two threads on a small  *)
(* arena, where rounds end out of memory, followed by a second search.     *)

\* Largest number of simulations started in one search() call of the
\* searches with short and long budgets
MaxShortSimulations == 5

PShort == [players |-> {1}, game_lens |-> {2}, branches |-> {1}, threads |-> {2}, deterministic |-> {TRUE}, reuse_subtree |-> {FALSE}, reuse_tree |-> {FALSE}, prune_full_tree |-> {TRUE, FALSE}, expand_thresholds |-> {0}, prune_count_starts |-> {16}, max_nodes |-> {2}, max_now |-> 0, seq_lens |-> {1}, max_searches |-> 2, budgets |-> {[max_count |-> 2, max_time |-> 0], [max_count |-> 4, max_time |-> 0], [max_count |-> 0, max_time |-> 3], [max_count |-> 0, max_time |-> 20]}, min_simulations |-> {0}, always_search |-> {TRUE}, max_simulations |-> MaxShortSimulations, live |-> FALSE, evals |-> {<<1, 1>>}, rave_equivalences |-> {1000}]

ShortInit == SearchInit(PShort) /\ FnIdle

ShortNext == SearchNext(PShort)

ShortSpec == ShortInit /\ [][ShortNext]_vars

\* The search is very short: the remaining time is below 0.5 s, or the
\* count limit less the reused count is reached in less than 0.5 s at the
\* expected speed
VeryShortSearch ==
    \/ m_max_time < 5 * TicksPerTenth
    \/ (m_max_count > 0 /\ 2 * (m_max_count - m_reuse_count) < ExpectedSimPerSec)

\* C34: in every round of a very short search only thread 0 is in
\* search_loop, the other threads are not started and stay outside it
\* (so none of them changes the tree); in every round of another search
\* all the threads of the search object are started
C34_ShortSearchSingleThreaded ==
    /\ pc \in {"launch", "running"} /\ VeryShortSearch => \A i \in Threads : i > 0 => m_threads[i].pc = "idle"
    /\ pc = "running" /\ VeryShortSearch => m_threads[0].pc # "idle"
    /\ pc = "running" /\ ~VeryShortSearch => \A i \in Threads : m_threads[i].pc # "idle"

\* A round after pruning of a very short search with a count limit, in
\* which thread 0 backs up a simulation and thread 1 is not started
C34_Witness ==
    /\ pc = "running"
    /\ obs.prune = "pruned"
    /\ m_max_count > 0
    /\ VeryShortSearch
    /\ m_threads[0].pc = "backup"
    /\ m_threads[1].pc = "idle"

\* A round after pruning of a search that is not very short: both threads
\* are in a simulation
C34_WitnessLong ==
    /\ pc = "running"
    /\ obs.prune = "pruned"
    /\ ~VeryShortSearch
    /\ m_threads[0].pc = "backup"
    /\ m_threads[1].pc = "tree"

\* C36: when a round ends with pruning or with "maximum tree size
\* reached", a thread that was started in the round left search_loop out
\* of memory in it
C36_PruneOnlyOnFreshFlag ==
    [][(pc = "running" /\ pc' # "running" /\ obs'.prune # "none") =>
        \E i \in Threads : i < nu_threads /\ m_threads[i].left_by = "out_of_mem"
      ]_vars

----------------------------------------------------------------------------
(* Termination of search().  The searches end by themselves: by the count  *)
(* limit, by the time limit with a time source that advances, or by a      *)
(* round that ends out of memory and is not recovered.                     *)

\* Largest number of simulations started in one search() call of the
\* termination checks: above the number the searches below can start
MaxTermSimulations == 80

\* Largest value of the time source in the termination checks: above the
\* time limits of the searches below
MaxTermNow == 7

PTerm == [players |-> {1}, game_lens |-> {2}, branches |-> {1}, threads |-> {1, 2}, deterministic |-> {TRUE, FALSE}, reuse_subtree |-> {FALSE}, reuse_tree |-> {FALSE}, prune_full_tree |-> {TRUE, FALSE}, expand_thresholds |-> {0}, prune_count_starts |-> {16, 402653184}, max_nodes |-> {1, 2}, max_now |-> MaxTermNow, seq_lens |-> {1}, max_searches |-> 1, budgets |-> {[max_count |-> 2, max_time |-> 0], [max_count |-> 3, max_time |-> 0], [max_count |-> 0, max_time |-> 1], [max_count |-> 0, max_time |-> 5]}, min_simulations |-> {0}, always_search |-> {TRUE}, max_simulations |-> MaxTermSimulations, live |-> FALSE, evals |-> {<<1, 1>>}, rave_equivalences |-> {1000}]

TermInit == SearchInit(PTerm) /\ FnIdle

\* The top of the loop with a time source that advances: a call of
\* m_timer() by the expensive abort check returns a later time (up to the
\* largest time of the model, which is above every time limit)
TermLoopTop(w) ==
    /\ LoopTop(w, PTerm)
    /\ m_threads'[w].chk.called => (now' > now \/ now = MaxTermNow)

\* The steps of thread w in search_loop
TermWorker(w) == w \in Threads /\ (TermLoopTop(w) \/ PlayInTree(w) \/ Backup(w, PTerm))

\* The steps of the caller of search() between the search loops
TermController == LaunchRound \/ RoundEnd(PTerm)

TermNext ==
    \/ StartSearch(PTerm)
    \/ \E w \in Threads : TermWorker(w)
    \/ TermController

\* Every thread that can take a step eventually takes one
TermSpec ==
    /\ TermInit
    /\ [][TermNext]_vars
    /\ \A w \in 0..(MaxThreads - 1) : WF_vars(TermWorker(w))
    /\ WF_vars(TermController)

\* The rounds of one search() call make progress: a round that is followed
\* by another one either doubled prune_min_count or left a smaller tree;
\* the count of the root and prune_min_count never go down; the tree only
\* grows in a simulation that is then backed up, which raises the count of
\* the root; and a simulation is only started below the largest count
C35_RoundProgress ==
    /\ (pc = "running" /\ pc' = "launch") => (prune_min_count' > prune_min_count \/ get_nu_nodes(m_tree') < get_nu_nodes(m_tree))
    /\ (pc = "running") => (m_tree'[1].count >= m_tree[1].count /\ prune_min_count' >= prune_min_count)
    /\ (pc = "running" /\ get_nu_nodes(m_tree') > get_nu_nodes(m_tree)) => \E w \in Threads : m_threads[w].pc = "tree" /\ m_threads'[w].pc = "backup"
    /\ \A w \in Threads : (m_threads[w].pc = "backup" /\ m_threads'[w].pc = "top") => m_tree'[1].count > m_tree[1].count
    /\ \A w \in Threads : (m_threads[w].pc = "top" /\ m_threads'[w].pc = "tree") => m_tree[1].count < m_max_float_count

\* A search whose rounds go on up to the largest number of simulations of
\* the model: the out-of-memory flag of a thread that the search does not
\* start was left set, the search has a time limit and is not deterministic
C35_LongSearch ==
    /\ m_nu_simulations = MaxTermSimulations
    /\ \E i \in Threads : i >= nu_threads /\ m_threads[i].is_out_of_mem
    /\ m_max_count = 0
    /\ ~cfg.m_deterministic

C35_BoundsNotReached ==
    /\ m_nu_simulations = MaxTermSimulations => C35_LongSearch
    /\ m_max_count = 0 => m_max_time < MaxTermNow

C35_WitnessTime ==
    /\ pc = "idle"
    /\ nu_searches = 1
    /\ m_max_count = 0
    /\ obs.prune = "none"
    /\ cfg.m_max_nodes = 2
    /\ obs.completed >= 3

----------------------------------------------------------------------------
(* m_reuse_count of a search that starts on a cleared tree.                 *)

\* C37: m_reuse_count is non-zero during a search only if a subtree of the
\* previous search was installed as the live tree: in a search that
\* cleared the tree at its start, the max-count abort condition counts
\* only the simulations of this search (m_reuse_count = 0)
C37_ReuseCountOnlyIfInstalled ==
    (pc \in {"launch", "running"} /\ obs.cleared) => m_reuse_count = 0

\* Whenever a subtree was installed, m_reuse_count is the count that the
\* root of the installed subtree had in the tree of the previous search
C37_ReuseCountOfInstalled ==
    [][(pc = "idle" /\ pc' = "launch" /\ obs'.installed) => m_reuse_count' = m_tree[obs'.node].count]_vars

----------------------------------------------------------------------------
(* The number of simulations that get_nu_simulations reports.               *)

\* Search::get_nu_simulations
get_nu_simulations == m_nu_simulations

\* C38: after search() returns, get_nu_simulations() is the number of
\* simulations of the call that were performed and backed up into the tree
C38_NuSimulationsPerformed ==
    (pc = "idle" /\ nu_searches > 0 /\ ~obs.early_return) => get_nu_simulations = obs.completed

\* What the counter does count: every pass through the top of search_loop,
\* that is the simulations backed up, the simulations that ended out of
\* memory and the pass in which each thread left the loop
C38_NuSimulationsStarted ==
    (pc = "idle" /\ nu_searches > 0 /\ ~obs.early_return) => get_nu_simulations > obs.completed

----------------------------------------------------------------------------
(* libboardgame_util::IntervalChecker on its own: a checker is constructed, *)
(* put into deterministic mode or not, and called again and again with a    *)
(* time source that does not go back and a predicate whose result is        *)
(* chosen at each invocation.                                               *)
(*   f_args: the arguments of the constructor and of set_deterministic      *)
(*   f_result: ic, the checker; now, the time source; of the last call:     *)
(*     ret, called, read as check_expensive reports them, expensive         *)
(*     (check_expensive was entered), f (what the predicate returned);      *)
(*     seen_true: some invocation of the predicate has returned true        *)
(*   f_count: the number of steps taken                                     *)

\* Largest value of the time source in the checks of the interval checker
MaxCheckerNow == 4

\* Largest number of steps of a sequence of calls of one interval checker:
\* enough for the count interval to grow from 1 to UIntMax and to go down
MaxCheckerCalls == 24

\* Values of 10 * time_interval in ticks
CheckerIntervals == {0, 2, 30, 300}

\* Arguments of set_deterministic
CheckerDetIntervals == {1, 2}

CheckerInit ==
    /\ SearchInit(PQuiet)
    /\ f_children = <<>>
    /\ f_exclude = {}
    /\ f_count = 0
    /\ f_remaining = <<0, 1>>
    /\ f_pc = "checker_idle"
    /\ f_args \in [time_interval10 : CheckerIntervals, deterministic : BOOLEAN, interval : CheckerDetIntervals]
    /\ (~f_args.deterministic => f_args.interval = 1)
    /\ f_result = [ic |-> IF f_args.deterministic THEN set_deterministic(IntervalChecker(f_args.time_interval10), f_args.interval) ELSE IntervalChecker(f_args.time_interval10), now |-> 0, ret |-> FALSE, called |-> FALSE, read |-> FALSE, expensive |-> FALSE, f |-> FALSE, seen_true |-> FALSE]

\* One call of the checker (operator()), which enters check_expensive when
\* the decremented counter is 0
CheckerCall ==
    /\ f_pc = "checker_idle"
    /\ f_count < MaxCheckerCalls
    /\ \E t \in f_result.now..MaxCheckerNow, f \in BOOLEAN :
        LET r == IntervalChecker_call(f_result.ic, t, f)
        IN  /\ (~r.read => t = f_result.now)
            /\ (~r.called => ~f)
            /\ f_result' = [ic |-> r.ic, now |-> t, ret |-> r.ret, called |-> r.called, read |-> r.read, expensive |-> f_result.ic.count = 1, f |-> f, seen_true |-> f_result.seen_true \/ (r.called /\ f)]
    /\ f_count' = f_count + 1
    /\ UNCHANGED <<searchVars, f_children, f_exclude, f_remaining, f_pc, f_args>>

\* The calls of the checker up to the one before the next that enters
\* check_expensive: each decrements the counter and returns m_result
CheckerCheapCalls ==
    /\ f_pc = "checker_idle"
    /\ f_count < MaxCheckerCalls
    /\ f_result.ic.count > 2
    /\ f_result' = [f_result EXCEPT !.ic.count = 1, !.ret = f_result.ic.result, !.called = FALSE, !.read = FALSE, !.expensive = FALSE, !.f = FALSE]
    /\ f_count' = f_count + 1
    /\ UNCHANGED <<searchVars, f_children, f_exclude, f_remaining, f_pc, f_args>>

CheckerNext == CheckerCall \/ CheckerCheapCalls

CheckerSpec == CheckerInit /\ [][CheckerNext]_vars

\* C39: the result of an interval checker latches: once the predicate has
\* returned true, every later call returns true without invoking the
\* predicate or reading the time source, in both modes; before that a call
\* returns true only if the predicate was invoked in that call and
\* returned true
C39_ResultLatches ==
    [][(f_pc = "checker_idle" /\ f_count' # f_count) =>
        /\ f_result.seen_true => (f_result'.ret /\ ~f_result'.called /\ ~f_result'.read /\ f_result'.ic.count_interval = f_result.ic.count_interval)
        /\ (~f_result.seen_true /\ f_result'.ret) => (f_result'.called /\ f_result'.f)
      ]_vars

\* check_expensive was entered after the predicate had returned true, and
\* returned true without invoking it
C39_Witness ==
    /\ f_pc = "checker_idle"
    /\ f_result.expensive
    /\ f_result.seen_true
    /\ ~f_result.called
    /\ f_result.ret
    /\ ~f_args.deterministic

\* The same in deterministic mode
C39_WitnessDeterministic ==
    /\ f_pc = "checker_idle"
    /\ f_result.expensive
    /\ f_result.seen_true
    /\ ~f_result.called
    /\ f_result.ret
    /\ f_args.deterministic

\* A call of check_expensive that adjusts the count interval
CheckerAdjusted == f_result.expensive /\ f_result.called /\ ~f_args.deterministic

\* C40 as stated: in deterministic mode no call of check_expensive changes
\* the count interval or reads the time source, and each call of
\* check_expensive resets the call counter to exactly k; in
\* non-deterministic mode each adjustment multiplies the interval by a
\* factor clamped to [0.1, 10] and keeps it within [1, UINT_MAX]
C40_FixedIntervalEveryCall ==
    [][(f_pc = "checker_idle" /\ f_count' # f_count) =>
        /\ f_args.deterministic =>
            /\ f_result'.ic.count_interval = f_args.interval
            /\ ~f_result'.read
            /\ f_result'.expensive => f_result'.ic.count = f_args.interval
        /\ CheckerAdjusted' =>
            /\ f_result'.ic.count_interval >= 1
            /\ f_result'.ic.count_interval <= UIntMax
            /\ f_result.ic.count_interval <= UIntMax \div 10 => f_result'.ic.count_interval <= 10 * f_result.ic.count_interval
            /\ f_result'.ic.count_interval >= f_result.ic.count_interval \div 10
      ]_vars

\* C40, amended: the same, but the call counter is reset to k by the calls
\* of check_expensive that invoke the predicate; a call after the predicate
\* has returned true returns at once and leaves the counter at 0
C40_FixedInterval ==
    [][(f_pc = "checker_idle" /\ f_count' # f_count) =>
        /\ f_args.deterministic =>
            /\ f_result'.ic.count_interval = f_args.interval
            /\ ~f_result'.read
            /\ (f_result'.expensive /\ ~f_result.seen_true) => (f_result'.called /\ f_result'.ic.count = f_args.interval)
            /\ (f_result'.expensive /\ f_result.seen_true) => f_result'.ic.count = 0
        /\ CheckerAdjusted' =>
            /\ f_result'.ic.count_interval >= 1
            /\ f_result'.ic.count_interval <= UIntMax
            /\ f_result.ic.count_interval <= UIntMax \div 10 => f_result'.ic.count_interval <= 10 * f_result.ic.count_interval
            /\ f_result'.ic.count_interval >= f_result.ic.count_interval \div 10
      ]_vars

\* A deterministic checker with k = 2 has made an expensive check that
\* invoked the predicate and reset the counter
C40_Witness ==
    /\ f_args.deterministic
    /\ f_args.interval = 2
    /\ f_result.expensive
    /\ f_result.called
    /\ f_result.ic.count = 2
    /\ f_count >= 4

\* An adjustment has reached the largest count interval
C40_WitnessMax ==
    /\ CheckerAdjusted
    /\ f_result.ic.count_interval = UIntMax

\* An adjustment by a factor below 1 has kept the count interval at 1
C40_WitnessMin ==
    /\ CheckerAdjusted
    /\ f_result.ic.count_interval = 1
    /\ f_result.ic.time_interval10 = 2
    /\ f_result.now >= 3
====
